---- MODULE Spec2Model ----
(***************************************************************************)
(* Model of the agent execution engine of kulomu/codereviewagent:          *)
(*   - MemoryManager   (src/agent/core/base/memory.py)                     *)
(*   - AgentExecutor   (src/agent/core/base/executor.py)                   *)
(*   - ToolCallAgent   (src/agent/core/toolCall.py): _validate_tool, act   *)
(*   - Reviewer        (src/agent/custom/reviewer.py): review_code         *)
(*   - MCPClient       (src/agent/mcpHub/client.py)                        *)
(* Each subsystem has its own specification (SpecMemory, SpecExec,         *)
(* SpecTool, SpecReview, SpecClient); the variables of the other           *)
(* subsystems stay at their construction values.  SpecExecTwo has two      *)
(* execute calls on one executor, and SpecAgent runs a ToolCallAgent: its  *)
(* memory, executor and tools together.                                    *)
(***************************************************************************)
EXTENDS Integers, Sequences, FiniteSets, TLC

VARIABLES
    \* MemoryManager
    memory_limit,   \* self.memory_limit
    _memory,        \* self._memory: list of AgentMemory
    log,            \* history: every entry appended since construction / last clear
    returned,       \* history: the ids returned by remember, in call order
    mem_op,         \* the operation that returned last, with its arguments and result
    \* AgentExecutor
    max_steps,      \* self.max_steps
    _state,         \* self._state
    _step_count,    \* self._step_count
    pc,             \* position of the one execute call in progress ("idle": none)
    context,        \* local variable context of execute
    cur,            \* the result execute is suspended on (yield result.output)
    calls,          \* history: step_func invocations of the current / last execute call
    consumed,       \* history: results consumed from the current step's stream
    outputs,        \* history: chunks emitted by the current / last execute call
    outcome,        \* history: how the last execute call ended
    entry,          \* history: _state, _step_count and the previous outcome when the last execute call started
    supplied,       \* history: the last next_input that was not None among the results consumed, else the input
    \* ToolCallAgent
    tools_arg,      \* the tools argument of __init__
    pending,        \* the part of the tools argument not yet looked at
    tools,          \* self.tools: name -> Tool
    tool_op,        \* the operation that returned last, with its arguments and result
    handler_calls,  \* history: handler invocations made by the last act call
    \* Reviewer
    batch_size,              \* self.batch_size
    max_concurrent_batches,  \* self.max_concurrent_batches
    diff_contents,  \* the diff_contents argument of review_code
    rv_pc,          \* position of the one review_code call ("idle": not called yet)
    path,           \* the strategy review_code chose: "large", "small", "none"
    batches,        \* local variable batches of _review_large_changes
    group,          \* loop variable i of the group loop (0-based, as in the code)
    tasks,          \* the batch / unit tasks, by 1-based index
    all_results,    \* local variable all_results of _review_large_changes
    results,        \* local variable results of _review_parallel_batch
    rv_k,           \* position of the emission loop
    emitted,        \* history: the chunks review_code has yielded
    completion,     \* history: the task indexes in the order the tasks ended
    \* MCPClient
    connections,    \* self.connections: list of McpConnection
    held,           \* the handles acquired and not released
    faulty,         \* the handles whose release raises
    serial,         \* number of handles acquired so far (names the next handle)
    client_op,      \* the operation that returned last, with the state it started in
    calling,        \* per caller: where its get_or_create_session call is suspended
    sess_log,       \* per provider: what its get_or_create_session calls did so far
    \* MCPToolAgent
    configs,        \* the server configs initialize has not handled yet
    _sessions,      \* self._sessions: server id -> session (None: no entry)
    _mcp_tools,     \* self._mcp_tools, by the server whose tools they are
    mcp_pc,         \* "new", "connecting" (inside initialize), "ready", "cleaned"
    \* A second execute call on the same AgentExecutor
    pc_b,           \* position of the second call ("idle": not made, "done": ended)
    context_b,      \* its local variable context
    cur_b,          \* the result it is suspended on
    calls_b,        \* history: its step_func invocations
    outcome_b,      \* history: how it ended
    \* ReActAgent / ToolCallAgent run by the executor
    response,       \* loop variable response of think: the response it works on
    thought_parts,  \* local variable thought_parts of step
    thoughts,       \* the Thoughts think yields before it reads the model stream again
    step_pc,        \* position of step: "thinking" (reading think), "returned", "none"
    acts,           \* history: act invocations of the current / last step
    tool_calls,     \* history: act invocations of the current / last run
    action,         \* local variable action of step: the Action last passed to act
    delivered       \* history: the texts the model stream delivered in the current / last run

memVars  == <<memory_limit, _memory, log, returned, mem_op>>
execVars == <<max_steps, _state, _step_count, pc, context, cur, calls, consumed, outputs, outcome, entry,
             supplied>>
toolVars == <<tools_arg, pending, tools, tool_op, handler_calls>>
reviewVars == <<batch_size, max_concurrent_batches, diff_contents, rv_pc, path, batches, group,
                tasks, all_results, results, rv_k, emitted, completion>>
clientVars ==
    <<connections, held, faulty, serial, client_op, calling, sess_log,
      configs, _sessions, _mcp_tools, mcp_pc>>
exec2Vars == <<pc_b, context_b, cur_b, calls_b, outcome_b>>
agentVars == <<response, thought_parts, thoughts, step_pc, acts, tool_calls, action, delivered>>
vars     == <<memVars, execVars, toolVars, reviewVars, clientVars, exec2Vars, agentVars>>

(***************************************************************************)
(* Python values.  An Optional[T] is modelled as a set: {} is None, {v} is *)
(* the value v.                                                            *)
(***************************************************************************)
None == {}

Some(v) == {v}

IsNone(o) == o = {}

Val(o) == CHOOSE v \in o : TRUE

\* Python truthiness of an Optional[int]: None and 0 are falsy.
TruthyInt(o) == o # {} /\ Val(o) # 0

\* Python truthiness of an Optional[str]: None and "" are falsy.
TruthyStr(o) == o # {} /\ Val(o) # ""

Max(a, b) == IF a >= b THEN a ELSE b

Min(a, b) == IF a <= b THEN a ELSE b

\* Python s[i:] for a list s and any integer i (a negative i counts from the end).
PySliceFrom(s, i) ==
    LET n     == Len(s)
        start == IF i < 0 THEN Max(n + i, 0) ELSE Min(i, n)
    IN  SubSeq(s, start + 1, n)

(***************************************************************************)
(* MemoryManager                                                           *)
(***************************************************************************)
\* Bounds of the memory model.
MaxLimit == 2

MaxRemember == 4

Types == {"user", "thought"}

\* f"mem_{n}"
MemId(n) == <<"mem_", n>>

\* AgentMemory(id, type, content, ...); timestamp and metadata are not read by
\* any operation of the store.
AgentMemory(id, type, content) == [id |-> id, type |-> type, content |-> content]

\* The ids a recall may ask for: every id remember can produce (the store holds
\* at most memory_limit entries when remember formats the id).
IdFilters == {None} \cup {Some(MemId(n)) : n \in 0..MaxLimit}

TypeFilters == {None} \cup {Some(t) : t \in Types}

LimitArgs == {None} \cup {Some(k) : k \in 0..MaxLimit}

\* Faulty variant of _trim_memory: trims one entry too late.
TrimOffByOne(mem, limit) ==
    IF Len(mem) > limit + 1 THEN PySliceFrom(mem, -limit) ELSE mem

\* Faulty variant of _trim_memory: keeps the oldest entries (self._memory[:limit]).
TrimKeepsOldest(mem, limit) ==
    IF Len(mem) > limit THEN SubSeq(mem, 1, limit) ELSE mem

\* MemoryManager._trim_memory (lines 44-47).
_trim_memory(mem, limit) ==
    IF Len(mem) > limit THEN PySliceFrom(mem, -limit) ELSE mem

\* MemoryManager.recall as a function of the store and the three arguments; a
\* list comprehension with a condition is SelectSeq.
recall(mem, memory_id, type, limit) ==
    LET m1 == IF TruthyStr(memory_id) THEN SelectSeq(mem, LAMBDA m : m.id = Val(memory_id)) ELSE mem
        m2 == IF TruthyStr(type) THEN SelectSeq(m1, LAMBDA m : m.type = Val(type)) ELSE m1
    IN  IF TruthyInt(limit) THEN PySliceFrom(m2, -Val(limit)) ELSE m2

InitMemory ==
    /\ memory_limit \in 1..MaxLimit
    /\ _memory = <<>>
    /\ log = <<>>
    /\ returned = <<>>
    /\ mem_op = [op |-> "init"]

\* MemoryManager.remember(content, type)
Remember(content, type) ==
    /\ Len(returned) < MaxRemember
    /\ LET memory_id == MemId(Len(_memory))
           memory    == AgentMemory(memory_id, type, content)
       IN  /\ _memory' = _trim_memory(Append(_memory, memory), memory_limit)
           /\ log' = Append(log, memory)
           /\ returned' = Append(returned, memory_id)
           /\ mem_op' = [op |-> "remember", id |-> memory_id, before |-> _memory]
    /\ UNCHANGED memory_limit

\* MemoryManager.recall(memory_id, type, limit): reads the store only.
Recall(memory_id, type, limit) ==
    /\ mem_op' = [op |-> "recall", memory_id |-> memory_id, type |-> type, limit |-> limit,
                  result |-> recall(_memory, memory_id, type, limit)]
    /\ UNCHANGED <<memory_limit, _memory, log, returned>>

\* MemoryManager.clear()
Clear ==
    /\ _memory # <<>>
    /\ _memory' = <<>>
    /\ log' = <<>>
    /\ mem_op' = [op |-> "clear"]
    /\ UNCHANGED <<memory_limit, returned>>

\* The payload of the n-th remember call is n: payloads are opaque to the store,
\* and distinct payloads tell the entries apart.
RememberStep ==
    /\ \E t \in Types : Remember(Len(returned) + 1, t)
    /\ UNCHANGED <<execVars, toolVars, reviewVars, clientVars, exec2Vars, agentVars>>

RecallStep ==
    /\ \E i \in IdFilters, t \in TypeFilters, k \in LimitArgs : Recall(i, t, k)
    /\ UNCHANGED <<execVars, toolVars, reviewVars, clientVars, exec2Vars, agentVars>>

ClearStep ==
    /\ Clear
    /\ UNCHANGED <<execVars, toolVars, reviewVars, clientVars, exec2Vars, agentVars>>

NextMemory == RememberStep \/ RecallStep \/ ClearStep

(***************************************************************************)
(* AgentExecutor                                                           *)
(***************************************************************************)
\* Bounds of the executor model: the largest max_steps tried, and the number of
\* chunks one execute call may be fed before the step function stops yielding.
MaxSteps == 3

MaxOutputs == 3

\* AgentExecutor.__init__ defaults.
DefaultMaxSteps == 10

\* AgentState
AgentStates == {"ready", "running", "error", "stopped"}

Texts == {"", "out"}

Answers == {"", "answer"}

Contexts == {"n1", "n2"}

\* What a step function can yield: StepResult objects (any field may be None, a
\* dataclass checks nothing) and values that are no StepResult.
StepResult(output, next_input, is_finished, final_answer) ==
    [kind |-> "StepResult", output |-> output, next_input |-> next_input,
     is_finished |-> is_finished, final_answer |-> final_answer]

StepResults ==
    { StepResult(o, n, f, a) :
        o \in {None} \cup {Some(t) : t \in Texts},
        n \in {None} \cup {Some(c) : c \in Contexts},
        f \in BOOLEAN,
        a \in {None} \cup {Some(t) : t \in Answers} }

NotAStepResult == [kind |-> "other"]

NoResult == [kind |-> "none"]

Yieldable == StepResults \cup {NotAStepResult}

\* The chunks execute emits.
OutputChunk(text) == [kind |-> "output", text |-> text]

\* f"\n=== 任务完成 ===\n{result.final_answer}\n"
FinalChunk(final_answer) ==
    [kind |-> "final", text |-> IF IsNone(final_answer) THEN "None" ELSE Val(final_answer)]

\* AgentExecutor._get_max_steps_error
_get_max_steps_error(max) == [kind |-> "limit", text |-> ToString(max)]

\* Faulty variant of AdmitState: no state check.
AdmitAnyState(s) == "running"

\* Faulty variant of AdmitState: only READY is admitted.
AdmitOnlyReady(s) == IF s = "ready" THEN "running" ELSE "raise"

\* execute, lines 22-26: the state the call runs in, or "raise".

AdmitState(s) ==
    IF s # "running"
    THEN IF s = "ready" THEN "running" ELSE "raise"
    ELSE s

\* Faulty variant of LoopContinues: <= for <.
LoopRunsOneMore(count, max) == count <= max

\* execute, line 31: while self._step_count < self.max_steps

LoopContinues(count, max) == count < max

\* Faulty variant of LimitReached: > for >=.
LimitNeverReached(count, max) == count > max

\* execute, line 56: if self._step_count >= self.max_steps

LimitReached(count, max) == count >= max

\* Faulty variant of Validate: an empty output is rejected like a missing one.
ValidateRejectsEmpty(r) ==
    IF r.kind # "StepResult" THEN "TypeError"
    ELSE IF ~TruthyStr(r.output) THEN "ValueError"
    ELSE "ok"

\* execute, lines 37-43: the error raised for a yielded value, or "ok".
Validate(r) ==
    IF r.kind # "StepResult" THEN "TypeError"
    ELSE IF IsNone(r.output) THEN "ValueError"
    ELSE "ok"

\* execute, line 48: if result.final_answer
EmitsMarker(r) == TruthyStr(r.final_answer)

\* Faulty variant of Finishes: tests final_answer instead of is_finished.
FinishesOnAnswer(r) == TruthyStr(r.final_answer)

\* execute, line 47: if result.is_finished

Finishes(r) == r.is_finished

\* Faulty variant of NextContext: the context is never replaced.
KeepContext(r, ctx) == ctx

\* execute, lines 53-54: if result.next_input is not None: context = result.next_input
NextContext(r, ctx) == IF ~IsNone(r.next_input) THEN Val(r.next_input) ELSE ctx

InitExec ==
    /\ max_steps \in 1..MaxSteps
    /\ _state = "ready"
    /\ _step_count = 0
    /\ pc = "idle"
    /\ context = "none"
    /\ cur = NoResult
    /\ calls = 0
    /\ consumed = 0
    /\ outputs = <<>>
    /\ outcome = "none"
    /\ entry = [state |-> "none", count |-> 0, prev |-> "none"]
    /\ supplied = "none"

\* The executor of an agent that is not being run.
ExecConstructed ==
    /\ max_steps = DefaultMaxSteps
    /\ _state = "ready"
    /\ _step_count = 0
    /\ pc = "idle"
    /\ context = "none"
    /\ cur = NoResult
    /\ calls = 0
    /\ consumed = 0
    /\ outputs = <<>>
    /\ outcome = "none"
    /\ entry = [state |-> "none", count |-> 0, prev |-> "none"]
    /\ supplied = "none"

\* Faulty variant of DeadlineArmed: the step runs without a deadline.
NoDeadline(p) == FALSE

\* execute, line 34: async with asyncio.timeout(self.step_timeout) around the
\* consumption of the step function's stream; p is the position of execute.  The
\* deadline can expire while execute awaits the step function.
DeadlineArmed(p) == p = "step"

\* Faulty variant of Fail: the exception is re-raised without the state change.
FailKeepsState(how) ==
    /\ _state' = _state
    /\ pc' = "idle"
    /\ outcome' = how

\* Faulty variant of Fail: the error is recorded but the loop goes on.
FailAndRetry(how) ==
    /\ _state' = "error"
    /\ pc' = "loop"
    /\ outcome' = how

\* except Exception: self._state = ERROR; raise (lines 60-63)
Fail(how) ==
    /\ _state' = "error"
    /\ pc' = "idle"
    /\ outcome' = how

\* A call of execute(step_func, ctx), up to the first loop test (lines 22-30).
Execute(ctx) ==
    /\ pc = "idle"
    /\ entry' = [state |-> _state, count |-> _step_count, prev |-> outcome]
    /\ supplied' = ctx
    /\ calls' = 0
    /\ consumed' = 0
    /\ outputs' = <<>>
    /\ cur' = NoResult
    /\ IF AdmitState(_state) = "raise"
       THEN /\ outcome' = "invalid_state"
            /\ UNCHANGED <<_state, _step_count, pc, context>>
       ELSE /\ _state' = AdmitState(_state)
            /\ _step_count' = 0
            /\ context' = ctx
            /\ pc' = "loop"
            /\ outcome' = "running"
    /\ UNCHANGED max_steps

\* The loop test and what follows it (lines 31-34 and 56-57).
LoopTest ==
    /\ pc = "loop"
    /\ IF LoopContinues(_step_count, max_steps)
       THEN /\ _step_count' = _step_count + 1
            /\ calls' = calls + 1
            /\ consumed' = 0
            /\ pc' = "step"
            /\ UNCHANGED <<outputs, outcome>>
       ELSE IF LimitReached(_step_count, max_steps)
       THEN /\ outputs' = Append(outputs, _get_max_steps_error(max_steps))
            /\ pc' = "limit_yielded"
            /\ UNCHANGED <<_step_count, calls, consumed, outcome>>
       ELSE /\ pc' = "idle"
            /\ outcome' = "returned"
            /\ UNCHANGED <<_step_count, calls, consumed, outputs>>
    /\ UNCHANGED <<max_steps, _state, context, cur, entry, supplied>>

\* The caller resumes execute after the step-limit message (line 58).
LimitResume ==
    /\ pc = "limit_yielded"
    /\ _step_count' = 0
    /\ pc' = "idle"
    /\ outcome' = "limit"
    /\ UNCHANGED <<max_steps, _state, context, cur, calls, consumed, outputs, entry, supplied>>

\* The step function yields r (lines 35-45): validation, then yield result.output.
StepYields(r) ==
    /\ pc = "step"
    /\ Len(outputs) < MaxOutputs
    /\ consumed' = consumed + 1
    /\ cur' = r
    /\ IF Validate(r) # "ok"
       THEN /\ Fail(Validate(r))
            /\ UNCHANGED outputs
       ELSE /\ outputs' = Append(outputs, OutputChunk(Val(r.output)))
            /\ pc' = "yielded"
            /\ UNCHANGED <<_state, outcome>>
    /\ supplied' = IF Validate(r) = "ok" /\ ~IsNone(r.next_input) THEN Val(r.next_input) ELSE supplied
    /\ UNCHANGED <<max_steps, _step_count, context, calls, entry>>

\* The caller resumes execute after a result's output (lines 47-54).
YieldResume ==
    /\ pc = "yielded"
    /\ IF Finishes(cur)
       THEN IF EmitsMarker(cur)
            THEN /\ outputs' = Append(outputs, FinalChunk(cur.final_answer))
                 /\ pc' = "final_yielded"
                 /\ UNCHANGED <<_step_count, context, outcome>>
            ELSE /\ _step_count' = 0
                 /\ pc' = "idle"
                 /\ outcome' = "finished"
                 /\ UNCHANGED <<context, outputs>>
       ELSE /\ context' = NextContext(cur, context)
            /\ pc' = "step"
            /\ UNCHANGED <<_step_count, outputs, outcome>>
    /\ UNCHANGED <<max_steps, _state, cur, calls, consumed, entry, supplied>>

\* The caller resumes execute after the final-answer marker (lines 50-51).
FinalResume ==
    /\ pc = "final_yielded"
    /\ _step_count' = 0
    /\ pc' = "idle"
    /\ outcome' = "finished"
    /\ UNCHANGED <<max_steps, _state, context, cur, calls, consumed, outputs, entry, supplied>>

\* The step function's stream ends: back to the loop test.
StepEnds ==
    /\ pc = "step"
    /\ pc' = "loop"
    /\ UNCHANGED <<max_steps, _state, _step_count, context, cur, calls, consumed, outputs, outcome, entry, supplied>>

\* The step function raises.
StepRaises ==
    /\ pc = "step"
    /\ Fail("step_error")
    /\ UNCHANGED <<max_steps, _step_count, context, cur, calls, consumed, outputs, entry, supplied>>

\* asyncio.timeout(self.step_timeout) expires while the step function is awaited.
StepTimesOut ==
    /\ DeadlineArmed(pc)
    /\ Fail("timeout")
    /\ UNCHANGED <<max_steps, _step_count, context, cur, calls, consumed, outputs, entry, supplied>>

\* BaseAgent.stop of the legacy agent, which carries the same _state field and
\* the same run loop: the only writer of STOPPED.  Called between runs.
Stop ==
    /\ pc = "idle"
    /\ _state # "stopped"
    /\ _state' = "stopped"
    /\ entry' = [state |-> "none", count |-> 0, prev |-> "none"]
    /\ outcome' = "none"
    /\ UNCHANGED <<max_steps, _step_count, pc, context, cur, calls, consumed, outputs, supplied>>

\* Faulty variant of Start: no state check.
StartUnguarded ==
    /\ pc = "idle"
    /\ _state' = "running"
    /\ UNCHANGED <<max_steps, _step_count, pc, context, cur, calls, consumed, outputs, outcome, entry, supplied>>

\* BaseAgent.start of the legacy agent (lines 72-76): raises unless the state is
\* READY.  Called between runs.
Start ==
    /\ pc = "idle"
    /\ _state' = IF _state # "ready" THEN _state ELSE "running"
    /\ UNCHANGED <<max_steps, _step_count, pc, context, cur, calls, consumed, outputs, outcome, entry, supplied>>

OthersOfExec == UNCHANGED <<memVars, toolVars, reviewVars, clientVars, exec2Vars, agentVars>>

ExecuteStep == Execute("input") /\ OthersOfExec

LoopTestStep == LoopTest /\ OthersOfExec

LimitResumeStep == LimitResume /\ OthersOfExec

StepYieldsStep == (\E r \in Yieldable : StepYields(r)) /\ OthersOfExec

YieldResumeStep == YieldResume /\ OthersOfExec

FinalResumeStep == FinalResume /\ OthersOfExec

StepEndsStep == StepEnds /\ OthersOfExec

StepRaisesStep == StepRaises /\ OthersOfExec

StepTimesOutStep == StepTimesOut /\ OthersOfExec

StopStep == Stop /\ OthersOfExec

StartStep == Start /\ OthersOfExec

NextExec ==
    \/ ExecuteStep
    \/ LoopTestStep
    \/ LimitResumeStep
    \/ StepYieldsStep
    \/ YieldResumeStep
    \/ FinalResumeStep
    \/ StepEndsStep
    \/ StepRaisesStep
    \/ StepTimesOutStep
    \/ StopStep
    \/ StartStep

(***************************************************************************)
(* Two execute calls on one AgentExecutor                                  *)
(***************************************************************************)
\* The results of the step functions of the two calls: valid results that end
\* the run or not, with or without a final answer.
SimpleResults ==
    { StepResult(Some("out"), None, f, a) : f \in BOOLEAN, a \in {None, Some("answer")} }

\* No second call is made.
NoSecondRun ==
    /\ pc_b = "idle"
    /\ context_b = "none"
    /\ cur_b = NoResult
    /\ calls_b = 0
    /\ outcome_b = "none"

\* except Exception: self._state = ERROR; raise (lines 60-63), in the second call.
FailB(how) ==
    /\ _state' = "error"
    /\ pc_b' = "done"
    /\ outcome_b' = how

\* The second call of execute(step_func, ctx), made once at any moment: lines 22-30.
ExecuteB(ctx) ==
    /\ pc_b = "idle"
    /\ outcome_b = "none"
    /\ calls_b' = 0
    /\ cur_b' = NoResult
    /\ IF AdmitState(_state) = "raise"
       THEN /\ outcome_b' = "invalid_state"
            /\ pc_b' = "done"
            /\ UNCHANGED <<_state, _step_count, context_b>>
       ELSE /\ _state' = AdmitState(_state)
            /\ _step_count' = 0
            /\ context_b' = ctx
            /\ pc_b' = "loop"
            /\ outcome_b' = "running"
    /\ UNCHANGED <<max_steps, pc, context, cur, calls, consumed, outputs, outcome, entry, supplied>>

\* lines 31-34 and 56-57
LoopTestB ==
    /\ pc_b = "loop"
    /\ IF LoopContinues(_step_count, max_steps)
       THEN /\ _step_count' = _step_count + 1
            /\ calls_b' = calls_b + 1
            /\ pc_b' = "step"
            /\ UNCHANGED outcome_b
       ELSE IF LimitReached(_step_count, max_steps)
       THEN /\ pc_b' = "limit_yielded"
            /\ UNCHANGED <<_step_count, calls_b, outcome_b>>
       ELSE /\ pc_b' = "done"
            /\ outcome_b' = "returned"
            /\ UNCHANGED <<_step_count, calls_b>>
    /\ UNCHANGED <<max_steps, _state, pc, context, cur, calls, consumed, outputs, outcome, entry, supplied,
                   context_b, cur_b>>

\* line 58
LimitResumeB ==
    /\ pc_b = "limit_yielded"
    /\ _step_count' = 0
    /\ pc_b' = "done"
    /\ outcome_b' = "limit"
    /\ UNCHANGED <<max_steps, _state, pc, context, cur, calls, consumed, outputs, outcome, entry, supplied,
                   context_b, cur_b, calls_b>>

\* lines 35-45
StepYieldsB(r) ==
    /\ pc_b = "step"
    /\ cur_b' = r
    /\ IF Validate(r) # "ok"
       THEN FailB(Validate(r))
       ELSE /\ pc_b' = "yielded"
            /\ UNCHANGED <<_state, outcome_b>>
    /\ UNCHANGED <<max_steps, _step_count, pc, context, cur, calls, consumed, outputs, outcome, entry, supplied,
                   context_b, calls_b>>

\* lines 47-54
YieldResumeB ==
    /\ pc_b = "yielded"
    /\ IF Finishes(cur_b)
       THEN IF EmitsMarker(cur_b)
            THEN /\ pc_b' = "final_yielded"
                 /\ UNCHANGED <<_step_count, context_b, outcome_b>>
            ELSE /\ _step_count' = 0
                 /\ pc_b' = "done"
                 /\ outcome_b' = "finished"
                 /\ UNCHANGED context_b
       ELSE /\ context_b' = NextContext(cur_b, context_b)
            /\ pc_b' = "step"
            /\ UNCHANGED <<_step_count, outcome_b>>
    /\ UNCHANGED <<max_steps, _state, pc, context, cur, calls, consumed, outputs, outcome, entry, supplied,
                   cur_b, calls_b>>

\* lines 50-51
FinalResumeB ==
    /\ pc_b = "final_yielded"
    /\ _step_count' = 0
    /\ pc_b' = "done"
    /\ outcome_b' = "finished"
    /\ UNCHANGED <<max_steps, _state, pc, context, cur, calls, consumed, outputs, outcome, entry, supplied,
                   context_b, cur_b, calls_b>>

\* The step function's stream ends: back to the loop test.
StepEndsB ==
    /\ pc_b = "step"
    /\ pc_b' = "loop"
    /\ UNCHANGED <<execVars, context_b, cur_b, calls_b, outcome_b>>

\* The step function raises, or its deadline expires.
StepFailsB(how) ==
    /\ DeadlineArmed(pc_b)
    /\ FailB(how)
    /\ UNCHANGED <<max_steps, _step_count, pc, context, cur, calls, consumed, outputs, outcome, entry, supplied,
                   context_b, cur_b, calls_b>>

OthersOfTwo == UNCHANGED <<memVars, toolVars, reviewVars, clientVars, agentVars>>

\* The first call is made once, too.
ExecuteOnceStep == outcome = "none" /\ Execute("input") /\ OthersOfExec

SimpleStepYieldsStep == (\E r \in SimpleResults : StepYields(r)) /\ OthersOfExec

ExecuteBStep == ExecuteB("input_b") /\ OthersOfTwo

LoopTestBStep == LoopTestB /\ OthersOfTwo

LimitResumeBStep == LimitResumeB /\ OthersOfTwo

StepYieldsBStep == (\E r \in SimpleResults : StepYieldsB(r)) /\ OthersOfTwo

YieldResumeBStep == YieldResumeB /\ OthersOfTwo

FinalResumeBStep == FinalResumeB /\ OthersOfTwo

StepEndsBStep == StepEndsB /\ OthersOfTwo

StepFailsBStep == (\E how \in {"step_error", "timeout"} : StepFailsB(how)) /\ OthersOfTwo

NextExecTwo ==
    \/ ExecuteOnceStep
    \/ LoopTestStep
    \/ LimitResumeStep
    \/ SimpleStepYieldsStep
    \/ YieldResumeStep
    \/ FinalResumeStep
    \/ StepEndsStep
    \/ StepRaisesStep
    \/ StepTimesOutStep
    \/ ExecuteBStep
    \/ LoopTestBStep
    \/ LimitResumeBStep
    \/ StepYieldsBStep
    \/ YieldResumeBStep
    \/ FinalResumeBStep
    \/ StepEndsBStep
    \/ StepFailsBStep

(***************************************************************************)
(* ToolCallAgent: _validate_tool, __init__, act                            *)
(***************************************************************************)
\* JSON values of a parameter schema: strings, maps and lists.
Str == [k |-> "str"]

JMap(m) == [k |-> "map", m |-> m]

JList(l) == [k |-> "list", l |-> l]

\* The keys of the schemas tried: the reference key and one other key.  The value
\* under "$ref" is a string, the value under "p" is any value.
Keys == {"$ref", "p"}

MapsOver(V) == { [x \in D |-> IF x = "$ref" THEN Str ELSE v] : D \in SUBSET Keys, v \in V }

ListsOver(V) == {<<>>} \cup {<<v>> : v \in V} \cup {<<Str, v>> : v \in V}

ValuesOver(V) == {Str} \cup {JMap(m) : m \in MapsOver(V)} \cup {JList(l) : l \in ListsOver(V)}

Values1 == ValuesOver({Str})

Values2 == ValuesOver(Values1)

Values3 == ValuesOver(Values2)

\* Tool.parameters: a map whose values nest three levels deep.
Params == MapsOver(Values3)

EmptyParams == [x \in {} |-> Str]

\* _validate_tool.check_ref_in_params (lines 154-170): TRUE means "no reference
\* found".  The loop returns False at the first offending value, which is the
\* conjunction over all items.
RECURSIVE check_ref_in_params(_)
check_ref_in_params(params) ==
    \A key \in DOMAIN params :
        LET value == params[key]
        IN  IF value.k = "map"
            THEN /\ "$ref" \notin DOMAIN value.m
                 /\ check_ref_in_params(value.m)
            ELSE IF value.k = "list"
            THEN \A i \in DOMAIN value.l :
                     value.l[i].k = "map" => check_ref_in_params(value.l[i].m)
            ELSE TRUE

\* ToolCallAgent._validate_tool (lines 142-176) on tool.parameters.
_validate_tool(parameters) ==
    IF parameters = EmptyParams THEN TRUE ELSE check_ref_in_params(parameters)

Tool(name, parameters) == [name |-> name, parameters |-> parameters]

\* Schemas for the second tool of a list: one accepted, one rejected.
FewParams == {EmptyParams, [x \in {"p"} |-> JMap([y \in {"$ref"} |-> Str])]}

\* The tools arguments tried: one tool with any schema, optionally a second one
\* of another name or of the same name.
ToolLists ==
    {<<Tool("t1", q)>> : q \in Params}
        \cup {<<Tool("t1", q), Tool(n, r)>> : q \in Params, r \in FewParams, n \in {"t1", "t2"}}

\* The tool names an Action may carry: the two above, an unknown one, and "".
ActionNames == {"t1", "t2", "foo", ""}

\* What a handler does when awaited: return a value (None or a string) or raise
\* an exception derived from Exception with a message.
Behaviours ==
    {[kind |-> "return", value |-> v] : v \in {None, Some("r")}}
        \cup {[kind |-> "raise", class |-> c, msg |-> m] :
                c \in {"Exception", "TypeError"}, m \in {"", "boom"}}

ActionResult(success, result, error) == [success |-> success, result |-> result, error |-> error]

\* Faulty variant of Caught: except TypeError.
CaughtOnlyTypeError(class) == class = "TypeError"

\* act, line 111: except Exception

Caught(class) == class \in {"Exception", "TypeError"}

\* f"未知工具: {tool_name}"
UnknownToolError(tool_name) == "unknown tool: " \o tool_name

\* f"工具调用失败: {str(e)}"
ToolFailedError(msg) == "tool call failed: " \o msg

InitTool ==
    /\ tools_arg \in ToolLists
    /\ pending = tools_arg
    /\ tools = [n \in {} |-> EmptyParams]
    /\ tool_op = [op |-> "init"]
    /\ handler_calls = 0

\* Faulty variant of Register: the tool is kept whatever _validate_tool returns.
RegisterUnchecked ==
    /\ pending # <<>>
    /\ LET tool  == Head(pending)
           valid == _validate_tool(tool.parameters)
       IN  /\ tools' = [n \in DOMAIN tools \cup {tool.name} |->
                            IF n = tool.name THEN tool.parameters ELSE tools[n]]
           /\ tool_op' = [op |-> "validate", tool |-> tool, valid |-> valid]
    /\ pending' = Tail(pending)
    /\ UNCHANGED <<tools_arg, handler_calls>>

\* One iteration of the loop of ToolCallAgent.__init__ (lines 43-46); the dict
\* comprehension keeps the last tool of each name.
Register ==
    /\ pending # <<>>
    /\ LET tool  == Head(pending)
           valid == _validate_tool(tool.parameters)
       IN  /\ tools' = IF valid
                       THEN [n \in DOMAIN tools \cup {tool.name} |->
                                IF n = tool.name THEN tool.parameters ELSE tools[n]]
                       ELSE tools
           /\ tool_op' = [op |-> "validate", tool |-> tool, valid |-> valid]
    /\ pending' = Tail(pending)
    /\ UNCHANGED <<tools_arg, handler_calls>>

\* An Action without parameters.
NoParameters == "{}"

\* ToolCallAgent.act(action) (lines 92-115) with a handler that behaves as b; the
\* handler is called with action.parameters (line 108).
Act(tool_name, parameters, b) ==
    /\ pending = <<>>
    /\ IF tool_name \notin DOMAIN tools
       THEN /\ handler_calls' = 0
            /\ tool_op' = [op |-> "act", name |-> tool_name, parameters |-> parameters, handler |-> b, raised |-> FALSE,
                           result |-> ActionResult(FALSE, None, Some(UnknownToolError(tool_name)))]
       ELSE /\ handler_calls' = 1
            /\ tool_op' =
                 IF b.kind = "return"
                 THEN [op |-> "act", name |-> tool_name, parameters |-> parameters, handler |-> b, raised |-> FALSE,
                       result |-> ActionResult(TRUE, b.value, None)]
                 ELSE IF Caught(b.class)
                 THEN [op |-> "act", name |-> tool_name, parameters |-> parameters, handler |-> b, raised |-> FALSE,
                       result |-> ActionResult(FALSE, None, Some(ToolFailedError(b.msg)))]
                 ELSE [op |-> "act", name |-> tool_name, parameters |-> parameters, handler |-> b, raised |-> TRUE]
    /\ UNCHANGED <<tools_arg, pending, tools>>

RegisterStep == Register /\ UNCHANGED <<memVars, execVars, reviewVars, clientVars, exec2Vars, agentVars>>

ActStep == (\E n \in ActionNames, b \in Behaviours : Act(n, NoParameters, b)) /\ UNCHANGED <<memVars, execVars, reviewVars, clientVars, exec2Vars, agentVars>>

NextTool == RegisterStep \/ ActStep

\* The registry of an agent built without tools.
ToolConstructed ==
    /\ tools_arg = <<>>
    /\ pending = <<>>
    /\ tools = [n \in {} |-> EmptyParams]
    /\ tool_op = [op |-> "init"]
    /\ handler_calls = 0

\* MemoryManager.__init__ default.
DefaultMemoryLimit == 1000

\* The store of an agent that remembers nothing.
MemoryConstructed ==
    /\ memory_limit = DefaultMemoryLimit
    /\ _memory = <<>>
    /\ log = <<>>
    /\ returned = <<>>
    /\ mem_op = [op |-> "init"]

(***************************************************************************)
(* Reviewer: review_code and its two strategies                            *)
(***************************************************************************)
MaxUnits == 7

MaxBatchSize == 3

MaxConfigured == 4

\* Reviewer.__init__, lines 67 and 70: the values used when the environment
\* sets neither REVIEW_BATCH_SIZE nor REVIEW_MAX_CONCURRENT.
DefaultBatchSize == 6

DefaultMaxConcurrent == 3

\* Reviewer.__init__, line 70: min(3, max(1, ...)).
MaxConcurrentCap == 3

MinConcurrent == 1

\* _review_parallel_batch, line 573: units awaited together.
ParallelGroupSize == 3

\* Python s[a:b] for a list s and 0 <= a <= b.
PySlice(s, a, b) == SubSeq(s, a + 1, Min(b, Len(s)))

\* len(range(0, stop, step)) for step > 0; its k-th element is (k - 1) * step.
RangeLen(stop, step) == Cardinality({i \in 0..(stop - 1) : i % step = 0})

\* Faulty variant of BatchOf: each slice runs one unit into the next one.
BatchOfOverlapping(diff, i, bs) == PySlice(diff, i, i + bs + 1)

\* _review_large_changes, line 591: diff_contents[i:i + self.batch_size]
BatchOf(diff, i, bs) == PySlice(diff, i, i + bs)

\* _review_large_changes, lines 591-592: the list of batches.
FormBatches(diff, bs) ==
    [k \in 1..RangeLen(Len(diff), bs) |-> BatchOf(diff, (k - 1) * bs, bs)]

\* Faulty variant of ClampConcurrent: the configured value is used as it is.
NoClamp(v) == v

\* Reviewer.__init__, line 70.
ClampConcurrent(v) == Min(MaxConcurrentCap, Max(MinConcurrent, v))

\* The text a task produces: the model's review of batch / unit i, or the
\* failure message of batch i (line 627); i is 1-based, as the messages print it.
NoText == [kind |-> "none", index |-> 0]

Review(i) == [kind |-> "review", index |-> i]

Failure(i) == [kind |-> "failure", index |-> i]

\* How a task ended: it returned a value or it raised.
Returned(r) == [kind |-> "value", result |-> r]

Raised == [kind |-> "exception", result |-> NoText]

\* Faulty variant of process_batch: an exception of the model call escapes.
process_batch_uncaught(batch_index, raises) ==
    IF raises THEN Raised ELSE Returned(Review(batch_index))

\* process_batch, lines 598-627: raises says whether rendering the prompt or the
\* model call raised; the except clause turns that into the failure message.
process_batch(batch_index, raises) ==
    IF raises THEN Returned(Failure(batch_index)) ELSE Returned(Review(batch_index))

\* review_single_file, lines 556-569: no except clause.
review_single_file(diff, raises) ==
    IF raises THEN Raised ELSE Returned(Review(diff))

\* A task of asyncio.gather.
NoTask == [st |-> "unstarted", raised |-> FALSE, out |-> None]

RunningTask == [st |-> "running", raised |-> FALSE, out |-> None]

\* The chunks review_code yields.
Chunk(name, i, j, body) == [chunk |-> name, index |-> i, of |-> j, body |-> body]

\* lines 659-660
Header(files, total) == <<Chunk("header", 0, 0, NoText), Chunk("totals", files, total, NoText)>>

\* lines 664-669; i is the 1-based position enumerate(all_results, 1) gives.
Section(i, result) ==
    IF ~IsNone(result)
    THEN <<Chunk("title", i, 0, NoText), Chunk("body", i, 0, Val(result)), Chunk("rule", 0, 0, NoText)>>
    ELSE <<Chunk("section_failed", i, 0, NoText)>>

\* line 569
Report(diff, text) == Chunk("report", diff, 0, text)

\* Faulty variant of GroupIndices: the group takes every task that is left.
AllRemaining(i, step, total) == (i + 1)..total

\* The 1-based indexes of the tasks of the group that starts at i (lines 636-637
\* and line 574).
GroupIndices(i, step, total) == (i + 1)..Min(i + step, total)

Launch(ts, idxs) == [k \in DOMAIN ts |-> IF k \in idxs THEN RunningTask ELSE ts[k]]

SetMax(S) == CHOOSE x \in S : \A y \in S : y <= x

\* line 630: the local max_concurrent_batches.
EffectiveConcurrent == Min(max_concurrent_batches, Len(batches))

\* The tasks asyncio.gather is waiting for.
CurrentGroup ==
    IF path = "large"
    THEN GroupIndices(group, EffectiveConcurrent, Len(batches))
    ELSE GroupIndices(group, ParallelGroupSize, Len(diff_contents))

InFlight == Cardinality({k \in DOMAIN tasks : tasks[k].st = "running"})

\* Reviewer.__init__ with REVIEW_BATCH_SIZE and REVIEW_MAX_CONCURRENT set to
\* integers (batch_size positive); review_code not called yet.
InitReview ==
    /\ batch_size \in 1..MaxBatchSize
    /\ \E v \in 0..MaxConfigured : max_concurrent_batches = ClampConcurrent(v)
    /\ diff_contents = <<>>
    /\ rv_pc = "idle"
    /\ path = "none"
    /\ batches = <<>>
    /\ group = 0
    /\ tasks = <<>>
    /\ all_results = <<>>
    /\ results = <<>>
    /\ rv_k = 0
    /\ emitted = <<>>
    /\ completion = <<>>

ReviewerConstructed ==
    /\ batch_size = DefaultBatchSize
    /\ max_concurrent_batches = ClampConcurrent(DefaultMaxConcurrent)
    /\ diff_contents = <<>>
    /\ rv_pc = "idle"
    /\ path = "none"
    /\ batches = <<>>
    /\ group = 0
    /\ tasks = <<>>
    /\ all_results = <<>>
    /\ results = <<>>
    /\ rv_k = 0
    /\ emitted = <<>>
    /\ completion = <<>>

\* _review_large_changes up to the first await (lines 589-646).
StartLarge(diff) ==
    LET bs   == FormBatches(diff, batch_size)
        tb   == Len(bs)
        step == Min(max_concurrent_batches, tb)
        none == [k \in 1..tb |-> NoTask]
    IN  /\ path' = "large"
        /\ batches' = bs
        /\ all_results' = [k \in 1..tb |-> None]
        /\ IF step = 0
           THEN \* range() with step 0 raises ValueError: lines 671-672
                /\ tasks' = none
                /\ emitted' = <<Chunk("large_failed", 0, 0, NoText)>>
                /\ rv_pc' = "done"
           ELSE /\ tasks' = Launch(none, GroupIndices(0, step, tb))
                /\ emitted' = <<>>
                /\ rv_pc' = "gather"

\* _review_parallel_batch up to the first await (lines 554-576).
StartSmall(diff) ==
    /\ path' = "small"
    /\ batches' = <<>>
    /\ all_results' = <<>>
    /\ tasks' = Launch([k \in 1..Len(diff) |-> NoTask], GroupIndices(0, ParallelGroupSize, Len(diff)))
    /\ emitted' = <<>>
    /\ rv_pc' = "small_gather"

\* review_code, lines 535-548, for n units (the units are named 1..n).
ReviewCode(n) ==
    /\ rv_pc = "idle"
    /\ diff_contents' = [u \in 1..n |-> u]
    /\ IF n > batch_size THEN StartLarge(diff_contents') ELSE StartSmall(diff_contents')
    /\ group' = 0
    /\ results' = <<>>
    /\ rv_k' = 0
    /\ completion' = <<>>
    /\ UNCHANGED <<batch_size, max_concurrent_batches>>

\* One task ends: its model call returned or raised.
TaskEnds(idx, raises) ==
    /\ idx \in DOMAIN tasks
    /\ tasks[idx].st = "running"
    /\ tasks' = [tasks EXCEPT ![idx] =
                    [st |-> "done", raised |-> raises,
                     out |-> Some(IF path = "large" THEN process_batch(idx, raises)
                                  ELSE review_single_file(diff_contents[idx], raises))]]
    /\ completion' = Append(completion, idx)
    /\ UNCHANGED <<batch_size, max_concurrent_batches, diff_contents, rv_pc, path, batches,
                   group, all_results, results, rv_k, emitted>>

TaskReturns == \E idx \in DOMAIN tasks : TaskEnds(idx, FALSE)

TaskRaises == \E idx \in DOMAIN tasks : TaskEnds(idx, TRUE)

\* asyncio.gather(*tasks, return_exceptions=True) returns and its results are
\* stored (lines 646-656); then the next group starts or the report begins.
GatherLarge ==
    LET tb     == Len(batches)
        step   == EffectiveConcurrent
        idxs   == CurrentGroup
        out(j) == Val(tasks[j].out)
        stored == [k \in 1..tb |->
                     LET hits == {j \in idxs : out(j).kind = "value" /\ out(j).result.index = k}
                     IN  IF hits = {} THEN all_results[k] ELSE Some(out(SetMax(hits)).result)]
        excs   == Cardinality({j \in idxs : out(j).kind = "exception"})
    IN  /\ rv_pc = "gather"
        /\ \A j \in idxs : tasks[j].st = "done"
        /\ all_results' = stored
        /\ emitted' = emitted \o [x \in 1..excs |-> Chunk("batch_exception", 0, 0, NoText)]
        /\ IF group + step < tb
           THEN /\ group' = group + step
                /\ tasks' = Launch(tasks, GroupIndices(group + step, step, tb))
                /\ rv_pc' = "gather"
           ELSE /\ group' = group
                /\ tasks' = tasks
                /\ rv_pc' = "report"
        /\ UNCHANGED <<batch_size, max_concurrent_batches, diff_contents, path, batches,
                       results, rv_k, completion>>

\* lines 659-660
EmitHeader ==
    /\ rv_pc = "report"
    /\ rv_k = 0
    /\ emitted' = emitted \o Header(Len(diff_contents), Len(batches))
    /\ rv_k' = 1
    /\ UNCHANGED <<batch_size, max_concurrent_batches, diff_contents, rv_pc, path, batches,
                   group, tasks, all_results, results, completion>>

\* lines 663-669: one iteration of the emission loop.
EmitSection ==
    /\ rv_pc = "report"
    /\ rv_k \in 1..Len(all_results)
    /\ emitted' = emitted \o Section(rv_k, all_results[rv_k])
    /\ rv_k' = rv_k + 1
    /\ rv_pc' = IF rv_k = Len(all_results) THEN "done" ELSE "report"
    /\ UNCHANGED <<batch_size, max_concurrent_batches, diff_contents, path, batches,
                   group, tasks, all_results, results, completion>>

\* asyncio.gather(*tasks) returns the reports of the group in task order
\* (lines 576-577); then the next group starts or the emission begins.
GatherSmallReturns ==
    LET n    == Len(diff_contents)
        idxs == CurrentGroup
    IN  /\ rv_pc = "small_gather"
        /\ \A j \in idxs : tasks[j].st = "done" /\ Val(tasks[j].out).kind = "value"
        /\ results' = results \o [x \in 1..Cardinality(idxs) |->
                                     Report(diff_contents[group + x], Val(tasks[group + x].out).result)]
        /\ IF group + ParallelGroupSize < n
           THEN /\ group' = group + ParallelGroupSize
                /\ tasks' = Launch(tasks, GroupIndices(group + ParallelGroupSize, ParallelGroupSize, n))
                /\ rv_pc' = "small_gather"
                /\ rv_k' = rv_k
           ELSE /\ group' = group
                /\ tasks' = tasks
                /\ rv_pc' = "small_emit"
                /\ rv_k' = 1
        /\ UNCHANGED <<batch_size, max_concurrent_batches, diff_contents, path, batches,
                       all_results, emitted, completion>>

\* asyncio.gather(*tasks) raises the exception of a task of the group as soon as
\* there is one; the tasks still running are left running; lines 583-584 yield
\* the failure message and the generator ends.
GatherSmallRaises ==
    /\ rv_pc = "small_gather"
    /\ \E j \in CurrentGroup : tasks[j].st = "done" /\ Val(tasks[j].out).kind = "exception"
    /\ emitted' = Append(emitted, Chunk("parallel_failed", 0, 0, NoText))
    /\ rv_pc' = "done"
    /\ UNCHANGED <<batch_size, max_concurrent_batches, diff_contents, path, batches,
                   group, tasks, all_results, results, rv_k, completion>>

\* lines 580-581: one iteration of the emission loop.
EmitReport ==
    /\ rv_pc = "small_emit"
    /\ rv_k \in 1..Len(results)
    /\ emitted' = Append(emitted, results[rv_k])
    /\ rv_k' = rv_k + 1
    /\ rv_pc' = IF rv_k = Len(results) THEN "done" ELSE "small_emit"
    /\ UNCHANGED <<batch_size, max_concurrent_batches, diff_contents, path, batches,
                   group, tasks, all_results, results, completion>>

OthersOfReview == UNCHANGED <<memVars, execVars, toolVars, clientVars, exec2Vars, agentVars>>

ReviewCodeStep == (\E n \in 1..MaxUnits : ReviewCode(n)) /\ OthersOfReview

TaskReturnsStep == TaskReturns /\ OthersOfReview

TaskRaisesStep == TaskRaises /\ OthersOfReview

GatherLargeStep == GatherLarge /\ OthersOfReview

EmitHeaderStep == EmitHeader /\ OthersOfReview

EmitSectionStep == EmitSection /\ OthersOfReview

GatherSmallReturnsStep == GatherSmallReturns /\ OthersOfReview

GatherSmallRaisesStep == GatherSmallRaises /\ OthersOfReview

EmitReportStep == EmitReport /\ OthersOfReview

NextReview ==
    \/ ReviewCodeStep
    \/ TaskReturnsStep
    \/ TaskRaisesStep
    \/ GatherLargeStep
    \/ EmitHeaderStep
    \/ EmitSectionStep
    \/ GatherSmallReturnsStep
    \/ GatherSmallRaisesStep
    \/ EmitReportStep

(***************************************************************************)
(* MCPClient                                                               *)
(***************************************************************************)
MaxHandles == 3

Providers == {"a", "b"}

\* A resource entered on an exit stack: the transport of stdio_client or a
\* ClientSession; n is the number of the acquisition.
Handle(n, kind, id) == [n |-> n, kind |-> kind, id |-> id]

\* McpConnection, lines 13-18.
McpConnection(id, transport, session, stack) ==
    [id |-> id, transport |-> transport, session |-> session, exit_stack |-> stack]

\* AsyncExitStack.aclose(): every entered resource is exited, last one first,
\* also after an exit that raised; the call raises if an exit raised.  The
\* handles it releases:
Released(stack) == {stack[i] : i \in DOMAIN stack} \ faulty

AcloseRaises(stack) == \E i \in DOMAIN stack : stack[i] \in faulty

\* The tasks that call get_or_create_session.
Callers == {1, 2}

MaxCallsPerProvider == 2

MaxSessionHandles == 5

\* No get_or_create_session call is in flight.
NotCalling == [pc |-> "idle", id |-> "", conn |-> 0, session |-> None]

\* overlap: two calls for the provider were in flight at once; closed: a stored
\* session of the provider reported closed; started: calls begun; shakes:
\* handshakes performed; rets: sessions returned; nrets: calls that returned one.
NoSessionLog ==
    [overlap |-> FALSE, closed |-> FALSE, started |-> 0, shakes |-> 0, rets |-> {}, nrets |-> 0]

\* Faulty variant of HasOpenSession: a stored session is never reused.
NeverReuses(conn, closed) == FALSE

\* get_or_create_session, line 71: if conn.session and not conn.session.closed
HasOpenSession(conn, closed) == ~IsNone(conn.session) /\ ~closed

\* Faulty variant of ExitOrder: the resources are exited first in, first out.
ExitInOrder(stack) == stack

\* AsyncExitStack.aclose() as disconnect calls it (line 81): the exits it
\* performs, the resource entered last first, every resource once.
ExitOrder(stack) == [i \in 1..Len(stack) |-> stack[Len(stack) + 1 - i]]

\* The exits of disconnect_all for the first n connections (lines 85-87).
RECURSIVE ExitOrders(_, _)
ExitOrders(conns, n) ==
    IF n = 0 THEN <<>> ELSE ExitOrders(conns, n - 1) \o ExitOrder(conns[n].exit_stack)

\* get_connection, lines 47-52: the position of the first connection of the
\* server, 0 for None.
get_connection(server_id) ==
    LET hits == {i \in DOMAIN connections : connections[i].id = server_id}
    IN  IF hits = {} THEN 0 ELSE CHOOSE i \in hits : \A j \in hits : i <= j

\* Faulty variant of RegisterOnConnect: the connection is registered before the
\* transport is entered.
RegisterBeforeEnter(conns, conn, entered) == Append(conns, conn)

\* connect_stdio, lines 35-40: the append follows the entering of the transport.
RegisterOnConnect(conns, conn, entered) == IF entered THEN Append(conns, conn) ELSE conns

\* list.remove(conn) for the connection at position i.
RemoveAt(conns, i) == SubSeq(conns, 1, i - 1) \o SubSeq(conns, i + 1, Len(conns))

ClientOp(name, id, raised) ==
    [name |-> name, id |-> id, raised |-> raised, connections |-> connections, held |-> held,
     released |-> <<>>]

ClientConstructed ==
    /\ connections = <<>>
    /\ held = {}
    /\ faulty = {}
    /\ serial = 0
    /\ client_op = [name |-> "init", id |-> "", raised |-> FALSE, connections |-> <<>>, held |-> {},
                    released |-> <<>>]
    /\ calling = [c \in Callers |-> NotCalling]
    /\ sess_log = [id \in Providers |-> NoSessionLog]
    /\ configs = <<>>
    /\ _sessions = [id \in Providers |-> None]
    /\ _mcp_tools = {}
    /\ mcp_pc = "new"

InitClient == ClientConstructed

\* connect_stdio, lines 25-45.  enters: stdio_client was entered; bad: the release
\* of the transport will raise.
ConnectStdio(server_id, enters, bad) ==
    LET h == Handle(serial + 1, "transport", server_id)
    IN  /\ serial < MaxHandles
        /\ IF enters
           THEN /\ connections' = RegisterOnConnect(connections,
                                      McpConnection(server_id, Some(h), None, <<h>>), TRUE)
                /\ held' = held \cup {h}
                /\ faulty' = IF bad THEN faulty \cup {h} ELSE faulty
                /\ serial' = serial + 1
           ELSE \* lines 42-45: the exit stack of the new connection is closed
                /\ connections' = RegisterOnConnect(connections,
                                      McpConnection(server_id, None, None, <<>>), FALSE)
                /\ held' = held \ Released(<<>>)
                /\ UNCHANGED <<faulty, serial>>
        /\ client_op' = ClientOp("connect_stdio", server_id, ~enters)

\* create_session, lines 54-63.  enters: the ClientSession was entered;
\* handshake: initialize() succeeded; bad: the release of the session will raise.
CreateSession(server_id, enters, handshake, bad) ==
    LET i == get_connection(server_id)
        h == Handle(serial + 1, "session", server_id)
    IN  /\ serial < MaxHandles
        /\ IF i # 0 /\ enters
           THEN /\ connections' = [connections EXCEPT ![i] =
                                      McpConnection(@.id, @.transport, Some(h), Append(@.exit_stack, h))]
                /\ held' = held \cup {h}
                /\ faulty' = IF bad THEN faulty \cup {h} ELSE faulty
                /\ serial' = serial + 1
                /\ client_op' = ClientOp("create_session", server_id, ~handshake)
           ELSE /\ UNCHANGED <<connections, held, faulty, serial>>
                /\ client_op' = ClientOp("create_session", server_id, TRUE)

\* get_or_create_session, lines 65-74.  closed: what conn.session.closed answers
\* (the session object belongs to the transport library).
GetOrCreateSession(server_id, closed, enters, handshake, bad) ==
    LET i == get_connection(server_id)
    IN  IF i = 0
        THEN /\ UNCHANGED <<connections, held, faulty, serial>>
             /\ client_op' = ClientOp("get_or_create_session", server_id, TRUE)
        ELSE IF HasOpenSession(connections[i], closed)
        THEN /\ UNCHANGED <<connections, held, faulty, serial>>
             /\ client_op' = ClientOp("get_or_create_session", server_id, FALSE)
        ELSE /\ CreateSession(server_id, enters, handshake, bad)

\* disconnect, lines 76-81.
Disconnect(server_id) ==
    LET i == get_connection(server_id)
    IN  /\ IF i # 0
           THEN /\ connections' = RemoveAt(connections, i)
                /\ held' = held \ Released(connections[i].exit_stack)
                /\ client_op' = [ClientOp("disconnect", server_id, AcloseRaises(connections[i].exit_stack))
                                     EXCEPT !.released = ExitOrder(connections[i].exit_stack)]
           ELSE /\ UNCHANGED <<connections, held>>
                /\ client_op' = ClientOp("disconnect", server_id, FALSE)
        /\ UNCHANGED <<faulty, serial>>

\* disconnect_all, lines 83-87: the loop over a copy of the list ends at the
\* first aclose() that raises.
DisconnectAll ==
    LET bad  == {i \in DOMAIN connections : AcloseRaises(connections[i].exit_stack)}
        last == IF bad = {} THEN Len(connections) ELSE CHOOSE i \in bad : \A j \in bad : i <= j
    IN  /\ connections' = SubSeq(connections, last + 1, Len(connections))
        /\ held' = held \ UNION {Released(connections[i].exit_stack) : i \in 1..last}
        /\ client_op' = [ClientOp("disconnect_all", "", bad # {})
                             EXCEPT !.released = ExitOrders(connections, last)]
        /\ UNCHANGED <<faulty, serial>>

OthersOfClient == UNCHANGED <<memVars, execVars, toolVars, reviewVars, exec2Vars, agentVars>>

\* The operations below run to completion: no call is suspended across them.
NoCallChange == UNCHANGED <<calling, sess_log, configs, _sessions, _mcp_tools, mcp_pc>>

ConnectStdioStep ==
    (\E id \in Providers, enters \in BOOLEAN, bad \in BOOLEAN : ConnectStdio(id, enters, bad))
    /\ NoCallChange
    /\ OthersOfClient

CreateSessionStep ==
    (\E id \in Providers, enters \in BOOLEAN, handshake \in BOOLEAN, bad \in BOOLEAN :
        CreateSession(id, enters, handshake, bad))
    /\ NoCallChange
    /\ OthersOfClient

GetOrCreateSessionStep ==
    (\E id \in Providers, closed \in BOOLEAN, enters \in BOOLEAN, handshake \in BOOLEAN, bad \in BOOLEAN :
        GetOrCreateSession(id, closed, enters, handshake, bad))
    /\ NoCallChange
    /\ OthersOfClient

DisconnectStep == (\E id \in Providers : Disconnect(id)) /\ NoCallChange /\ OthersOfClient

DisconnectAllStep == DisconnectAll /\ NoCallChange /\ OthersOfClient

\* The calls of the provider that are suspended, the one of caller c excepted.
OtherCalls(c, id) == {d \in Callers \ {c} : calling[d].pc # "idle" /\ calling[d].id = id}

\* get_or_create_session, lines 65-74, and create_session, lines 56-60, up to the
\* await of enter_async_context.  closed: what conn.session.closed answers.
GetOrCreateBegins(c, server_id, closed) ==
    LET i   == get_connection(server_id)
        entry_log == [sess_log[server_id] EXCEPT !.started = @ + 1,
                                           !.overlap = @ \/ OtherCalls(c, server_id) # {}]
    IN  /\ calling[c].pc = "idle"
        /\ sess_log[server_id].started < MaxCallsPerProvider
        /\ IF i = 0
           THEN \* lines 68-69
                /\ UNCHANGED calling
                /\ sess_log' = [sess_log EXCEPT ![server_id] = entry_log]
           ELSE IF HasOpenSession(connections[i], closed)
           THEN \* line 72
                /\ UNCHANGED calling
                /\ sess_log' = [sess_log EXCEPT ![server_id] =
                                   [entry_log EXCEPT !.rets = @ \cup connections[i].session,
                                               !.nrets = @ + 1]]
           ELSE \* line 74, lines 56-60
                /\ calling' = [calling EXCEPT ![c] =
                                  [pc |-> "entering", id |-> server_id, conn |-> i, session |-> None]]
                /\ sess_log' = [sess_log EXCEPT ![server_id] =
                                   [entry_log EXCEPT !.closed = @ \/ (~IsNone(connections[i].session) /\ closed)]]
        /\ UNCHANGED <<connections, held, faulty, serial, client_op>>

\* create_session, lines 60-62: enter_async_context returns or raises; the
\* session it returns is stored, then initialize() is awaited.
SessionEntered(c, enters, bad) ==
    LET i == calling[c].conn
        h == Handle(serial + 1, "session", calling[c].id)
    IN  /\ calling[c].pc = "entering"
        /\ serial < MaxSessionHandles
        /\ IF enters
           THEN /\ connections' = [connections EXCEPT ![i] =
                                      McpConnection(@.id, @.transport, Some(h), Append(@.exit_stack, h))]
                /\ held' = held \cup {h}
                /\ faulty' = IF bad THEN faulty \cup {h} ELSE faulty
                /\ serial' = serial + 1
                /\ calling' = [calling EXCEPT ![c] = [@ EXCEPT !.pc = "handshake", !.session = Some(h)]]
           ELSE /\ calling' = [calling EXCEPT ![c] = NotCalling]
                /\ UNCHANGED <<connections, held, faulty, serial>>
        /\ UNCHANGED <<sess_log, client_op>>

\* create_session, lines 62-63: initialize() returns or raises.
HandshakeEnds(c, handshake) ==
    /\ calling[c].pc = "handshake"
    /\ calling' = [calling EXCEPT ![c] = NotCalling]
    /\ sess_log' = [sess_log EXCEPT ![calling[c].id] =
                       [@ EXCEPT !.shakes = @ + 1,
                                 !.rets = IF handshake THEN @ \cup calling[c].session ELSE @,
                                 !.nrets = IF handshake THEN @ + 1 ELSE @]]
    /\ UNCHANGED <<connections, held, faulty, serial, client_op>>

NoMcpChange == UNCHANGED <<configs, _sessions, _mcp_tools, mcp_pc>>

GetOrCreateBeginsStep ==
    (\E c \in Callers, id \in Providers, closed \in BOOLEAN : GetOrCreateBegins(c, id, closed))
    /\ NoMcpChange
    /\ OthersOfClient

\* No release happens while the calls run: the sessions are taken as releasable.
SessionEnteredStep ==
    (\E c \in Callers, enters \in BOOLEAN : SessionEntered(c, enters, FALSE))
    /\ NoMcpChange
    /\ OthersOfClient

\* The connections the calls run on: a connect_stdio call that succeeded.
ConnectedStep ==
    (\E id \in Providers : ConnectStdio(id, TRUE, FALSE)) /\ NoCallChange /\ OthersOfClient

HandshakeEndsStep ==
    (\E c \in Callers, handshake \in BOOLEAN : HandshakeEnds(c, handshake))
    /\ NoMcpChange
    /\ OthersOfClient

NextSession ==
    \/ ConnectedStep
    \/ GetOrCreateBeginsStep
    \/ SessionEnteredStep
    \/ HandshakeEndsStep

(***************************************************************************)
(* MCPToolAgent.initialize and cleanup (src/agent/core/mcp.py)             *)
(***************************************************************************)
MaxConfigs == 2

\* What _load_server_configs can return: a list of server ids.
ConfigLists == UNION {[1..n -> Providers] : n \in 0..MaxConfigs}

\* get_connection, lines 47-52, on a list of connections.
Find(conns, server_id) ==
    LET hits == {i \in DOMAIN conns : conns[i].id = server_id}
    IN  IF hits = {} THEN 0 ELSE CHOOSE i \in hits : \A j \in hits : i <= j

\* The truth value of the dict self._sessions.
HoldsSession == \E id \in Providers : ~IsNone(_sessions[id])

\* initialize, lines 61-63: the configs are loaded.
McpInitialize(cfgs) ==
    /\ mcp_pc = "new"
    /\ configs' = cfgs
    /\ mcp_pc' = "connecting"
    /\ UNCHANGED <<connections, held, faulty, serial, client_op, calling, sess_log,
                   _sessions, _mcp_tools>>

\* initialize, lines 66-90: one turn of the loop over the configs.  enters:
\* connect_stdio succeeds; s_enters: the ClientSession is entered; handshake:
\* session.initialize() succeeds; listed: the sessions whose list_tools call in
\* _load_tools succeeds.  Every exception ends the turn (lines 89-90).
McpConnect(enters, s_enters, handshake, listed) ==
    LET id     == Head(configs)
        t      == Handle(serial + 1, "transport", id)
        s      == Handle(serial + 2, "session", id)
        conns1 == Append(connections, McpConnection(id, Some(t), None, <<t>>))
        i      == Find(conns1, id)
        conns2 == [conns1 EXCEPT ![i] =
                      McpConnection(@.id, @.transport, Some(s), Append(@.exit_stack, s))]
        stored == [_sessions EXCEPT ![id] = Some(s)]
    IN  /\ mcp_pc = "connecting"
        /\ configs # <<>>
        /\ serial + 2 <= MaxSessionHandles
        /\ configs' = Tail(configs)
        /\ IF ~enters
           THEN \* connect_stdio raises (client.py 42-45)
                /\ UNCHANGED <<connections, held, serial, _sessions, _mcp_tools>>
           ELSE IF ~s_enters
           THEN \* create_session raises at line 60 of client.py
                /\ connections' = conns1
                /\ held' = held \cup {t}
                /\ serial' = serial + 1
                /\ UNCHANGED <<_sessions, _mcp_tools>>
           ELSE /\ connections' = conns2
                /\ held' = held \cup {t, s}
                /\ serial' = serial + 2
                /\ IF ~handshake
                   THEN \* create_session raises at line 62 of client.py
                        UNCHANGED <<_sessions, _mcp_tools>>
                   ELSE \* lines 84-87
                        /\ _sessions' = stored
                        /\ _mcp_tools' = _mcp_tools \cup
                               {p \in listed : ~IsNone(stored[p])}
        /\ UNCHANGED <<faulty, client_op, calling, sess_log, mcp_pc>>

\* initialize, lines 92-97: the loop has ended.
McpInitialized ==
    /\ mcp_pc = "connecting"
    /\ configs = <<>>
    /\ mcp_pc' = "ready"
    /\ UNCHANGED <<connections, held, faulty, serial, client_op, calling, sess_log,
                   configs, _sessions, _mcp_tools>>

\* cleanup, line 285: if self._sessions
McpDisconnects == HoldsSession

\* cleanup, lines 282-290.  super().cleanup() clears the memory, which no run
\* has written to here.
McpCleanup ==
    /\ mcp_pc = "ready"
    /\ IF McpDisconnects
       THEN DisconnectAll
       ELSE UNCHANGED <<connections, held, faulty, serial, client_op>>
    /\ _sessions' = [id \in Providers |-> None]
    /\ _mcp_tools' = {}
    /\ mcp_pc' = "cleaned"
    /\ UNCHANGED <<calling, sess_log, configs>>

McpInitializeStep == (\E cfgs \in ConfigLists : McpInitialize(cfgs)) /\ OthersOfClient

McpConnectStep ==
    (\E enters \in BOOLEAN, s_enters \in BOOLEAN, handshake \in BOOLEAN, listed \in SUBSET Providers :
        McpConnect(enters, s_enters, handshake, listed))
    /\ OthersOfClient

McpInitializedStep == McpInitialized /\ OthersOfClient

McpCleanupStep == McpCleanup /\ OthersOfClient

NextMcp ==
    \/ McpInitializeStep
    \/ McpConnectStep
    \/ McpInitializedStep
    \/ McpCleanupStep

NextClient ==
    \/ ConnectStdioStep
    \/ CreateSessionStep
    \/ GetOrCreateSessionStep
    \/ DisconnectStep
    \/ DisconnectAllStep

(***************************************************************************)
(* BaseAgent.run, ReActAgent.step and ToolCallAgent.think                  *)
(***************************************************************************)
\* think has read no response.
NoResponse == [stop_reason |-> "nothing", text |-> "", tool_call |-> {}]

\* The stream raised instead of delivering a response.
StreamRaised(msg) == [stop_reason |-> "raised", text |-> msg, tool_call |-> {}]

\* step has built no Action.
NoAction == [id |-> "", name |-> "", parameters |-> "", description |-> "", priority |-> 0]

\* No agent run has started.
NoAgentRun ==
    /\ response = NoResponse
    /\ thought_parts = <<>>
    /\ thoughts = <<>>
    /\ step_pc = "none"
    /\ acts = 0
    /\ tool_calls = 0
    /\ action = NoAction
    /\ delivered = <<>>

\* The texts of the model's responses: a fragment of a turn has text, the
\* response that ends the turn may be empty.
FragmentText == "hi"

FinalTexts == {"", "hi"}

\* The tool_call of a response.
ToolCall(name) == [toolUseId |-> "id1", name |-> name, parameters |-> "args"]

\* A response of the model stream, with the fields think reads.
Response(stop_reason, text, tool_call) ==
    [stop_reason |-> stop_reason, text |-> text, tool_call |-> tool_call]

\* The responses tried: a text fragment, a request for the registered tool "t1"
\* or for the unregistered tool "foo", and the end of the turn.
Responses ==
    {Response("none", FragmentText, None)}
        \cup {Response("tool_use", FragmentText, Some(ToolCall(n))) : n \in {"t1", "foo"}}
        \cup {Response("end_turn", t, None) : t \in FinalTexts}

\* What the handler of a requested tool does: it returns a value or raises.
HandlerBehaviours ==
    {[kind |-> "return", value |-> Some("r")],
     [kind |-> "raise", class |-> "Exception", msg |-> "boom"]}

Thought(content, next_action, finished) ==
    [content |-> content, next_action |-> next_action, finished |-> finished]

\* The description of a registered tool.
ToolDescription(name) == "about " \o name

\* ToolCallAgent._format_next_action (lines 178-194): None for a tool that is
\* not registered, else a dict with the keys id, name, description, parameters.
_format_next_action(tool_call) ==
    IF tool_call.name \notin DOMAIN tools
    THEN None
    ELSE Some([id |-> tool_call.toolUseId, name |-> tool_call.name,
               description |-> ToolDescription(tool_call.name),
               parameters |-> tool_call.parameters])

\* The default of action.get("input", {}).
NoArgs == NoParameters

\* The dataclass Action; priority keeps its default.
Action(id, name, parameters, description) ==
    [id |-> id, name |-> name, parameters |-> parameters, description |-> description,
     priority |-> 0]

\* ReActAgent._build_action (lines 124-131): the parameters are read under the
\* key "input".
_build_action(dict) ==
    Action(dict.id, dict.name,
           IF "input" \in DOMAIN dict THEN dict["input"] ELSE NoArgs,
           IF dict.description # "" THEN dict.description ELSE dict.name)

\* ToolCallAgent.think (lines 68-84) on one response: the Thoughts it yields, in
\* order.  The plain Thought of line 84 follows the other two as well.
think(r) ==
    (IF r.stop_reason = "tool_use" /\ ~IsNone(r.tool_call)
     THEN <<Thought(r.text, _format_next_action(Val(r.tool_call)), FALSE)>>
     ELSE <<>>)
    \o (IF r.stop_reason = "end_turn"
        THEN <<Thought(r.text, None, TRUE)>>
        ELSE <<>>)
    \o <<Thought(r.text, None, FALSE)>>

\* f"思考过程出错: {str(e)}"
ThinkError(msg) == "think failed: " \o msg

\* think, lines 85-90: the Thought yielded when the stream raises.
ThoughtOnError(msg) == Thought(ThinkError(msg), None, TRUE)

\* ''.join(thought_parts)
RECURSIVE Join(_)
Join(parts) == IF parts = <<>> THEN "" ELSE Head(parts) \o Join(Tail(parts))

\* f"\n[行动] {action.name}\n"
ActionText(name) == "[action] " \o name

\* json.dumps(asdict(x))
Json(x) == [json |-> x]

Message(role, content, function_call, function_call_id) ==
    [role |-> role, content |-> content, function_call |-> function_call,
     function_call_id |-> function_call_id]

\* ReActAgent._get_current_task_history (lines 119-122).
_get_current_task_history(mem, count) == recall(mem, None, None, Some(count + 1))

\* The messages _build_messages appends for one memory entry (lines 138-155).
MessagesOf(m) ==
    IF m.type = "user" THEN <<Message("user", Some(m.content), None, None)>>
    ELSE IF m.type = "thought" THEN <<Message("assistant", Some(m.content), None, None)>>
    ELSE IF m.type = "action"
    THEN <<Message("assistant", None, Some(Json(m.content.action)), None),
           Message("user", Some(Json(m.content.result)), None, Some(m.content.action.id))>>
    ELSE <<>>

RECURSIVE MessagesOfAll(_)
MessagesOfAll(history) ==
    IF history = <<>> THEN <<>> ELSE MessagesOf(Head(history)) \o MessagesOfAll(Tail(history))

\* ReActAgent._build_messages (lines 133-156).
_build_messages(mem, count) == MessagesOfAll(_get_current_task_history(mem, count))

\* The tools of the agent that is run: "t1" is registered.
AgentTools ==
    /\ tools_arg = <<Tool("t1", EmptyParams)>>
    /\ pending = <<>>
    /\ tools = [n \in {"t1"} |-> EmptyParams]
    /\ tool_op = [op |-> "init"]
    /\ handler_calls = 0

\* The input of the n-th run.
InputOf(n) == "task" \o ToString(n)

Runs == Len(SelectSeq(log, LAMBDA m : m.type = "user"))

\* BaseAgent.run(input_text) (lines 24-28) up to the first loop test of execute:
\* the input is remembered before execute looks at the state.
Run(input_text) ==
    /\ pc = "idle"
    /\ Remember(input_text, "user")
    /\ Execute(input_text)
    /\ response' = NoResponse
    /\ thought_parts' = <<>>
    /\ thoughts' = <<>>
    /\ step_pc' = "none"
    /\ acts' = 0
    /\ tool_calls' = 0
    /\ action' = NoAction
    /\ delivered' = <<>>
    /\ UNCHANGED toolVars

\* The loop test of execute; when it goes on, step is called: thought_parts = []
\* and think opens the model stream (react.py lines 51-54).
AgentLoopTest ==
    /\ LoopTest
    /\ response' = NoResponse
    /\ thought_parts' = <<>>
    /\ thoughts' = <<>>
    /\ step_pc' = IF pc' = "step" THEN "thinking" ELSE "none"
    /\ acts' = 0
    /\ UNCHANGED <<tool_calls, action, delivered, memVars, toolVars>>

\* Faulty variant of StepOn: the step goes on reading think after a tool call.
StepOnAndGoOn(th) ==
    LET parts == IF th.content # "" THEN Append(thought_parts, th.content) ELSE thought_parts
    IN  /\ thought_parts' = parts
        /\ IF th.finished
           THEN /\ Remember(Join(parts), "thought")
                /\ StepYields(StepResult(Some(th.content), None, TRUE, None))
                /\ step_pc' = "returned"
                /\ UNCHANGED <<toolVars, acts, tool_calls, action>>
           ELSE IF ~IsNone(th.next_action)
           THEN \E b \in HandlerBehaviours :
                   LET a == _build_action(Val(th.next_action))
                   IN  /\ action' = a
                       /\ Act(a.name, a.parameters, b)
                       /\ Remember([thought |-> Join(parts), action |-> a,
                                    result |-> tool_op'.result], "action")
                       /\ StepYields(StepResult(Some(ActionText(a.name)),
                                                Some(_build_messages(_memory', _step_count)),
                                                FALSE, None))
                       /\ acts' = acts + 1
                       /\ tool_calls' = tool_calls + 1
                       /\ UNCHANGED step_pc
           ELSE /\ StepYields(StepResult(Some(th.content), None, FALSE, None))
                /\ UNCHANGED <<memVars, toolVars, step_pc, acts, tool_calls, action>>

\* One iteration of the loop of ReActAgent.step (lines 54-112) on the Thought th,
\* up to the yield of its StepResult, which execute validates and passes on
\* (executor.py lines 35-45).  The handler of the tool behaves as b.
StepOn(th) ==
    LET parts == IF th.content # "" THEN Append(thought_parts, th.content) ELSE thought_parts
    IN  /\ thought_parts' = parts
        /\ IF th.finished
           THEN /\ Remember(Join(parts), "thought")
                /\ StepYields(StepResult(Some(th.content), None, TRUE, None))
                /\ step_pc' = "returned"
                /\ UNCHANGED <<toolVars, acts, tool_calls, action>>
           ELSE IF ~IsNone(th.next_action)
           THEN \E b \in HandlerBehaviours :
                   LET a == _build_action(Val(th.next_action))
                   IN  /\ action' = a
                       /\ Act(a.name, a.parameters, b)
                       /\ acts' = acts + 1
                       /\ tool_calls' = tool_calls + 1
                       /\ IF tool_op'.raised
                          THEN \* act let the exception through: step re-raises it
                               \* (lines 114-116) and execute fails
                               /\ StepRaises
                               /\ step_pc' = "none"
                               /\ UNCHANGED memVars
                          ELSE /\ Remember([thought |-> Join(parts), action |-> a,
                                            result |-> tool_op'.result], "action")
                               /\ StepYields(StepResult(Some(ActionText(a.name)),
                                                        Some(_build_messages(_memory', _step_count)),
                                                        FALSE, None))
                               /\ step_pc' = "returned"
           ELSE /\ StepYields(StepResult(Some(th.content), None, FALSE, None))
                /\ UNCHANGED <<memVars, toolVars, step_pc, acts, tool_calls, action>>

\* The model stream delivers a response: think yields its first Thought and
\* step works on it.
ModelResponds(r) ==
    /\ step_pc = "thinking"
    /\ thoughts = <<>>
    /\ StepOn(Head(think(r)))
    /\ thoughts' = Tail(think(r))
    /\ response' = r
    /\ delivered' = Append(delivered, r.text)

\* step asks think for the next Thought while think has one left for the
\* response it is working on.
NextThought ==
    /\ step_pc = "thinking"
    /\ thoughts # <<>>
    /\ StepOn(Head(thoughts))
    /\ thoughts' = Tail(thoughts)
    /\ UNCHANGED <<response, delivered>>

\* Faulty variant of ModelRaises: think lets the exception through, step
\* re-raises it and execute fails.
ModelRaisesUncaught(msg) ==
    /\ step_pc = "thinking"
    /\ thoughts = <<>>
    /\ StepRaises
    /\ step_pc' = "none"
    /\ response' = StreamRaised(msg)
    /\ UNCHANGED <<thought_parts, thoughts, acts, tool_calls, action, delivered, memVars, toolVars>>

\* The model stream raises an exception with message msg while think reads it:
\* think yields the error Thought (toolCall.py lines 85-90).
ModelRaises(msg) ==
    /\ step_pc = "thinking"
    /\ thoughts = <<>>
    /\ StepOn(ThoughtOnError(msg))
    /\ thoughts' = <<>>
    /\ response' = StreamRaised(msg)
    /\ UNCHANGED delivered

\* The model stream ends: think ends, the loop of step ends and with it the
\* stream execute reads.
ModelEnds ==
    /\ step_pc = "thinking"
    /\ thoughts = <<>>
    /\ StepEnds
    /\ step_pc' = "none"
    /\ UNCHANGED <<response, thought_parts, thoughts, acts, tool_calls, action, delivered, memVars, toolVars>>

\* execute asks for the next result of a step that has returned (react.py lines
\* 75 and 105).
StepReturns ==
    /\ step_pc = "returned"
    /\ StepEnds
    /\ step_pc' = "none"
    /\ UNCHANGED <<response, thought_parts, thoughts, acts, tool_calls, action, delivered, memVars, toolVars>>

\* BaseAgent.cleanup (lines 30-32), called between runs.
Cleanup ==
    /\ pc = "idle"
    /\ Clear
    /\ UNCHANGED <<execVars, toolVars, agentVars>>

OthersOfAgent == UNCHANGED <<reviewVars, clientVars, exec2Vars>>

RunStep == Run(InputOf(Runs + 1)) /\ OthersOfAgent

AgentLoopTestStep == AgentLoopTest /\ OthersOfAgent

ModelRespondsStep == (\E r \in Responses : ModelResponds(r)) /\ OthersOfAgent

NextThoughtStep == NextThought /\ OthersOfAgent

ModelRaisesStep == ModelRaises("boom") /\ OthersOfAgent

ModelEndsStep == ModelEnds /\ OthersOfAgent

StepReturnsStep == StepReturns /\ OthersOfAgent

AgentYieldResumeStep == YieldResume /\ UNCHANGED <<memVars, toolVars, agentVars>> /\ OthersOfAgent

AgentLimitResumeStep == LimitResume /\ UNCHANGED <<memVars, toolVars, agentVars>> /\ OthersOfAgent

AgentTimesOutStep == StepTimesOut /\ UNCHANGED <<memVars, toolVars, agentVars>> /\ OthersOfAgent

CleanupStep == Cleanup /\ OthersOfAgent

NextAgent ==
    \/ RunStep
    \/ AgentLoopTestStep
    \/ ModelRespondsStep
    \/ NextThoughtStep
    \/ ModelRaisesStep
    \/ ModelEndsStep
    \/ StepReturnsStep
    \/ AgentYieldResumeStep
    \/ AgentLimitResumeStep
    \/ AgentTimesOutStep
    \/ CleanupStep

(***************************************************************************)
(* Specifications                                                          *)
(***************************************************************************)
InitSpecMemory ==
    InitMemory /\ ExecConstructed /\ ToolConstructed /\ ReviewerConstructed /\ ClientConstructed
    /\ NoSecondRun
    /\ NoAgentRun

SpecMemory == InitSpecMemory /\ [][NextMemory]_vars

InitSpecExec ==
    InitExec /\ MemoryConstructed /\ ToolConstructed /\ ReviewerConstructed /\ ClientConstructed
    /\ NoSecondRun
    /\ NoAgentRun

SpecExec == InitSpecExec /\ [][NextExec]_vars

\* The scheduling of one run: the event loop runs execute whenever it can go on
\* (the loop test), the caller keeps consuming the stream (the three resumes),
\* and the deadline of a step fires if the step function stays awaited.
FairSpecExec ==
    /\ InitSpecExec /\ [][NextExec]_vars
    /\ WF_vars(LoopTestStep)
    /\ WF_vars(YieldResumeStep)
    /\ WF_vars(FinalResumeStep)
    /\ WF_vars(LimitResumeStep)
    /\ WF_vars(StepTimesOutStep)

InitSpecExecTwo ==
    InitExec /\ MemoryConstructed /\ ToolConstructed /\ ReviewerConstructed /\ ClientConstructed
    /\ NoSecondRun
    /\ NoAgentRun

SpecExecTwo == InitSpecExecTwo /\ [][NextExecTwo]_vars

InitSpecTool ==
    InitTool /\ MemoryConstructed /\ ExecConstructed /\ ReviewerConstructed /\ ClientConstructed
    /\ NoSecondRun
    /\ NoAgentRun

SpecTool == InitSpecTool /\ [][NextTool]_vars

InitSpecReview ==
    InitReview /\ MemoryConstructed /\ ExecConstructed /\ ToolConstructed /\ ClientConstructed
    /\ NoSecondRun
    /\ NoAgentRun

SpecReview == InitSpecReview /\ [][NextReview]_vars

\* The scheduling of one review: every task the event loop has started ends (its
\* model call returns or raises), gather returns once its tasks are done, and
\* the caller keeps consuming the chunks review_code yields.
FairSpecReview ==
    /\ InitSpecReview /\ [][NextReview]_vars
    /\ WF_vars(TaskReturnsStep \/ TaskRaisesStep)
    /\ WF_vars(GatherLargeStep)
    /\ WF_vars(EmitHeaderStep)
    /\ WF_vars(EmitSectionStep)

InitSpecClient ==
    InitClient /\ MemoryConstructed /\ ExecConstructed /\ ToolConstructed /\ ReviewerConstructed
    /\ NoSecondRun
    /\ NoAgentRun

SpecClient == InitSpecClient /\ [][NextClient]_vars

InitSpecSession ==
    InitClient /\ MemoryConstructed /\ ExecConstructed /\ ToolConstructed /\ ReviewerConstructed
    /\ NoSecondRun
    /\ NoAgentRun

SpecSession == InitSpecSession /\ [][NextSession]_vars

InitSpecMcp ==
    InitClient /\ MemoryConstructed /\ ExecConstructed /\ ToolConstructed /\ ReviewerConstructed
    /\ NoSecondRun
    /\ NoAgentRun

SpecMcp == InitSpecMcp /\ [][NextMcp]_vars

InitSpecAgent ==
    InitExec /\ MemoryConstructed /\ AgentTools /\ ReviewerConstructed /\ ClientConstructed
    /\ NoSecondRun
    /\ NoAgentRun

SpecAgent == InitSpecAgent /\ [][NextAgent]_vars

(***************************************************************************)
(* Claims about MemoryManager (checked under SpecMemory)                   *)
(***************************************************************************)
\* The last n elements of s, or all of s when it has fewer.
MostRecent(s, n) == SubSeq(s, Len(s) - Min(n, Len(s)) + 1, Len(s))

\* s filtered by exact id, then by exact kind; an absent filter keeps everything.
ExactlyFiltered(s, memory_id, type) ==
    LET byId == SelectSeq(s, LAMBDA m : IsNone(memory_id) \/ m.id = Val(memory_id))
    IN  SelectSeq(byId, LAMBDA m : IsNone(type) \/ m.type = Val(type))

IsPlainRecall == mem_op.op = "recall" /\ IsNone(mem_op.memory_id) /\ IsNone(mem_op.type) /\ IsNone(mem_op.limit)

\* C1: with a positive memory_limit, after every remember and every clear the
\* store holds at most memory_limit entries.
C1_CapacityHolds == Len(_memory) <= memory_limit

\* C1 witness: a remember on a full store has returned, and the store is still full.
C1_Witness ==
    /\ mem_op.op = "remember"
    /\ Len(mem_op.before) = memory_limit
    /\ Len(_memory) = memory_limit

\* C2: recall() with no arguments returns at most memory_limit entries, and they
\* are the most recently added entries in insertion order.
C2_RecallIsMostRecent ==
    IsPlainRecall =>
        /\ Len(mem_op.result) <= memory_limit
        /\ mem_op.result = MostRecent(log, memory_limit)

\* C2 witness: a plain recall after at least two evictions.
C2_Witness == IsPlainRecall /\ Len(log) > memory_limit + 1

\* C3 (as claimed): for every id filter, kind filter and limit k >= 0, recall
\* returns the last k entries of the exactly filtered list, or all of it when it
\* has fewer than k entries.
C3_RecallLastK ==
    mem_op.op = "recall" =>
        LET filtered == ExactlyFiltered(_memory, mem_op.memory_id, mem_op.type)
        IN  mem_op.result =
                IF IsNone(mem_op.limit) THEN filtered ELSE MostRecent(filtered, Val(mem_op.limit))

\* C4 (as claimed): every id remember returns differs from the ids of the entries
\* held when it was called and from every id returned before, and no id filter
\* selects more than one entry.
C4_IdsAreFresh ==
    /\ \A i, j \in DOMAIN returned : i # j => returned[i] # returned[j]
    /\ mem_op.op = "remember" =>
           \A i \in DOMAIN mem_op.before : mem_op.before[i].id # mem_op.id
    /\ \A f \in IdFilters \ {None} : Len(recall(_memory, f, None, None)) <= 1

(***************************************************************************)
(* Claims about AgentExecutor.execute (checked under SpecExec)             *)
(***************************************************************************)
Last(s) == s[Len(s)]

LimitChunks == {i \in DOMAIN outputs : outputs[i].kind = "limit"}

FinalChunks == {i \in DOMAIN outputs : outputs[i].kind = "final"}

CurFinished == cur.kind = "StepResult" /\ Validate(cur) = "ok" /\ cur.is_finished

\* C7: one execute call invokes step_fn at most max_steps times, and
\* 0 <= step_count <= max_steps in every reachable state.
C7_StepsBounded ==
    /\ 0 <= _step_count
    /\ _step_count <= max_steps
    /\ calls <= max_steps

\* C7 witness: a run of more than one step has used up all its steps.
C7_Witness == pc = "step" /\ calls = max_steps /\ max_steps > 1

\* C8: a run in which no result signals completion and no step fails invokes
\* step_fn exactly max_steps times and then emits the step-limit message once, as
\* its last output; it raises nothing, leaves the state Running and the counter 0.
C8_StepLimitOutcome ==
    /\ outcome # "returned"
    /\ (pc = "loop" /\ ~LoopContinues(_step_count, max_steps)) => calls = max_steps
    /\ pc = "limit_yielded" =>
           /\ calls = max_steps
           /\ Last(outputs) = _get_max_steps_error(max_steps)
           /\ Cardinality(LimitChunks) = 1
           /\ _state = "running"
    /\ (pc = "idle" /\ outcome = "limit") =>
           /\ calls = max_steps
           /\ Last(outputs) = _get_max_steps_error(max_steps)
           /\ Cardinality(LimitChunks) = 1
           /\ _state = "running"
           /\ _step_count = 0

\* C8 witness: a run of MaxSteps steps that emitted outputs ended by the step limit.
C8_Witness == pc = "idle" /\ outcome = "limit" /\ max_steps > 1 /\ Len(outputs) > 1

\* C9: when a consumed result signals completion, execute emits its output, emits
\* the final-answer marker only if the result carries a final answer, resets the
\* counter and returns: the step's stream is not read again, step_fn is not called
\* again and the step-limit message is not emitted.
C9_CompletionEndsRun ==
    /\ pc = "yielded" => Last(outputs) = OutputChunk(Val(cur.output))
    /\ CurFinished =>
           /\ pc \in {"yielded", "final_yielded", "idle"}
           /\ LimitChunks = {}
           /\ pc = "final_yielded" =>
                  /\ ~IsNone(cur.final_answer)
                  /\ Last(outputs) = FinalChunk(cur.final_answer)
                  /\ outputs[Len(outputs) - 1] = OutputChunk(Val(cur.output))
           /\ (pc = "idle" /\ outcome # "none") =>
                  /\ outcome = "finished"
                  /\ _step_count = 0
                  /\ FinalChunks # {} => ~IsNone(cur.final_answer)
                  /\ FinalChunks \subseteq {Len(outputs)}
                  /\ outputs[Len(outputs) - Cardinality(FinalChunks)] = OutputChunk(Val(cur.output))
    /\ (pc = "idle" /\ outcome = "finished") => CurFinished

\* C9 witness: a run completed in its second step or later with a final answer.
C9_Witness ==
    /\ pc = "idle" /\ outcome = "finished"
    /\ calls > 1
    /\ FinalChunks # {}

\* C10: execute on an executor in Error or Stopped fails with the invalid-state
\* error, calls no step function, emits nothing and leaves state and counter as
\* they were; in Ready it moves to Running, in Running it proceeds unchanged.
C10_StateGate ==
    /\ entry.state \in {"error", "stopped"} =>
           /\ pc = "idle"
           /\ outcome = "invalid_state"
           /\ calls = 0
           /\ outputs = <<>>
           /\ _state = entry.state
           /\ _step_count = entry.count
    /\ entry.state \in {"ready", "running"} =>
           /\ outcome # "invalid_state"
           /\ pc # "idle" => _state = "running"
    /\ outcome = "invalid_state" => entry.state \in {"error", "stopped"}

\* C10 witness: a call was rejected in Stopped with a non-zero counter left behind.
C10_Witness ==
    /\ outcome = "invalid_state"
    /\ entry.state = "stopped"
    /\ _step_count > 0

(***************************************************************************)
(* Claims about ToolCallAgent (checked under SpecTool)                     *)
(***************************************************************************)
\* Some map of the schema holds the key "$ref": the map itself, a map that is a
\* value of such a map, or a map that is an element of a list that is a value.
RECURSIVE HasRef(_)
HasRef(m) ==
    \/ "$ref" \in DOMAIN m
    \/ \E key \in DOMAIN m :
           LET value == m[key]
           IN  \/ value.k = "map" /\ HasRef(value.m)
               \/ value.k = "list" /\ \E i \in DOMAIN value.l :
                      value.l[i].k = "map" /\ HasRef(value.l[i].m)

\* C5 (as claimed): _validate_tool rejects a tool if and only if some map of its
\* parameter schema, at any depth through map values and through maps that are
\* list elements, holds the key "$ref".
C5_RejectsIffRef ==
    tool_op.op = "validate" => (tool_op.valid <=> ~HasRef(tool_op.tool.parameters))

\* C6: act returns an ActionResult and never raises.  Unknown tool: failure with
\* an error naming the tool, no handler called.  Handler raises: failure with a
\* non-empty error carrying the message, no result.  Handler returns: success
\* with the handler's value and no error.
C6_ActNeverRaises ==
    tool_op.op = "act" =>
        /\ ~tool_op.raised
        /\ tool_op.name \notin DOMAIN tools =>
               /\ tool_op.result = ActionResult(FALSE, None, Some("unknown tool: " \o tool_op.name))
               /\ handler_calls = 0
        /\ (tool_op.name \in DOMAIN tools /\ tool_op.handler.kind = "raise") =>
               /\ handler_calls = 1
               /\ ~tool_op.result.success
               /\ IsNone(tool_op.result.result)
               /\ ~IsNone(tool_op.result.error)
               /\ Len(Val(tool_op.result.error)) > 0
               /\ Val(tool_op.result.error) = "tool call failed: " \o tool_op.handler.msg
        /\ (tool_op.name \in DOMAIN tools /\ tool_op.handler.kind = "return") =>
               /\ handler_calls = 1
               /\ tool_op.result = ActionResult(TRUE, tool_op.handler.value, None)

\* C6 witness: the handler of a registered tool raised with an empty message and
\* act returned.
C6_Witness ==
    /\ tool_op.op = "act"
    /\ tool_op.name \in DOMAIN tools
    /\ tool_op.handler.kind = "raise"
    /\ tool_op.handler.msg = ""
    /\ ~tool_op.raised

(***************************************************************************)
(* Claims about failures of a run (checked under SpecExec / FairSpecExec)  *)
(***************************************************************************)
\* The outcomes of a run that ended by an exception raised inside the step loop.
LoopErrors == {"step_error", "timeout", "TypeError", "ValueError"}

\* C11: an exception raised inside the step loop (by the step function, by the
\* validation of a result, by the deadline) ends the call with the state Error,
\* and from then on the state is never Ready or Running again and every execute
\* call is rejected with the invalid-state error before doing anything.
C11_ErrorIsFinal ==
    [][ /\ (pc # "idle" /\ outcome' \in LoopErrors) => (_state' = "error" /\ pc' = "idle")
        /\ _state \in {"error", "stopped"} =>
               /\ _state' \in {"error", "stopped"}
               /\ pc' = "idle"
               /\ _step_count' = _step_count
               /\ entry' # entry => (outcome' = "invalid_state" \/ entry'.state = "none")
               /\ calls' = 0 \/ calls' = calls
               /\ outputs' = <<>> \/ outputs' = outputs ]_vars

\* C11 witness: after a run failed in its loop, a later call was rejected.
C11_Witness ==
    /\ entry.state = "error"
    /\ outcome = "invalid_state"
    /\ _step_count > 0

C14_EmptyOutputAborts ==
    pc = "yielded" => (cur.kind = "StepResult" /\ TruthyStr(cur.output))

\* C14 (amended): a result whose output is None and a value that is no StepResult
\* emit nothing and end the run with a ValueError / TypeError in state Error; any
\* other result, also one with an empty output, is emitted and the run goes on.
C14_MissingOutputAborts ==
    [][ consumed' = consumed + 1 =>
            IF cur'.kind # "StepResult" \/ IsNone(cur'.output)
            THEN /\ outputs' = outputs
                 /\ _state' = "error"
                 /\ pc' = "idle"
                 /\ outcome' = (IF cur'.kind # "StepResult" THEN "TypeError" ELSE "ValueError")
            ELSE /\ outputs' = Append(outputs, OutputChunk(Val(cur'.output)))
                 /\ pc' = "yielded"
                 /\ _state' = _state ]_vars

\* C14 witness: a result without output aborted a run that had emitted output.
C14_Witness == outcome = "ValueError" /\ pc = "idle" /\ _state = "error" /\ Len(outputs) > 0

(***************************************************************************)
(* Claims about the Reviewer (checked under SpecReview)                    *)
(***************************************************************************)
RECURSIVE Flatten(_)
\* The concatenation of a list of lists.
Flatten(ss) == IF ss = <<>> THEN <<>> ELSE Head(ss) \o Flatten(Tail(ss))

\* What batch k contributed: its review, or its failure message when its model
\* call raised.
BatchText(k) == IF tasks[k].raised THEN Failure(k) ELSE Review(k)

RECURSIVE ExpectedSections(_)
\* The sections of batches 1..k in index order, each a title, the batch's
\* text and a rule.
ExpectedSections(k) ==
    IF k = 0 THEN <<>>
    ELSE ExpectedSections(k - 1)
         \o <<Chunk("title", k, 0, NoText), Chunk("body", k, 0, BatchText(k)), Chunk("rule", 0, 0, NoText)>>

ExpectedReport ==
    <<Chunk("header", 0, 0, NoText), Chunk("totals", Len(diff_contents), Len(batches), NoText)>>
    \o ExpectedSections(Len(batches))

IsPrefix(s, t) == Len(s) <= Len(t) /\ s = SubSeq(t, 1, Len(s))

Chunks == {emitted[i] : i \in DOMAIN emitted}

\* C15: for N > batch_size units, _review_large_changes forms ceil(N / batch_size)
\* batches that cut the input list into contiguous pieces in input order (every
\* unit in exactly one batch), and what it emits is the summary header followed
\* by one section per batch in batch-index order, holding the batch's result or
\* its failure message, whatever the order in which the tasks ended and
\* whichever of them failed.
C15_OrderedReport ==
    path = "large" =>
        /\ Len(batches) = (Len(diff_contents) + batch_size - 1) \div batch_size
        /\ Flatten(batches) = diff_contents
        /\ \A k \in DOMAIN batches : Len(batches[k]) \in 1..batch_size
        /\ rv_pc \in {"gather"} => emitted = <<>>
        /\ rv_pc \in {"report", "done"} => IsPrefix(emitted, ExpectedReport)
        /\ rv_pc = "done" => emitted = ExpectedReport

\* C15 witness: 7 units, batch_size 3, 2 concurrent batches; batch 2 failed and
\* ended before batch 1; the report is complete.
C15_Witness ==
    /\ path = "large"
    /\ rv_pc = "done"
    /\ Len(diff_contents) = 7
    /\ batch_size = 3
    /\ max_concurrent_batches = 2
    /\ completion = <<2, 1, 3>>
    /\ tasks[2].raised /\ ~tasks[1].raised /\ ~tasks[3].raised
    /\ emitted = Header(7, 3) \o Section(1, Some(Review(1))) \o Section(2, Some(Failure(2)))
                 \o Section(3, Some(Review(3)))

\* C16: in the large path an exception inside a batch task is not propagated: the
\* task returns the failure message of its own batch index, the other tasks of
\* its group and all later groups are run to their end, and the final report
\* holds the text of every batch at its index.
C16_BatchFailureRecorded ==
    path = "large" =>
        /\ \A k \in DOMAIN tasks :
               tasks[k].st = "done" => Val(tasks[k].out) = Returned(BatchText(k))
        /\ \A c \in Chunks : c.chunk \notin {"batch_exception", "large_failed", "section_failed"}
        /\ rv_pc \in {"report", "done"} =>
               \A k \in DOMAIN tasks :
                   tasks[k].st = "done" /\ all_results[k] = Some(BatchText(k))
        /\ rv_pc = "done" =>
               \A k \in DOMAIN tasks : Chunk("body", k, 0, BatchText(k)) \in Chunks

\* C16 witness: the first batch failed, a batch of its group and a batch of a
\* later group did not, and the report is complete.
C16_Witness ==
    /\ path = "large"
    /\ rv_pc = "done"
    /\ max_concurrent_batches > 1
    /\ group > 0
    /\ tasks[1].raised /\ ~tasks[2].raised /\ ~tasks[Len(tasks)].raised

\* C17 (as claimed): in the small path, when the model call of a unit raises,
\* the reports of all the units whose model call did not raise are emitted.
C17_SiblingReportsEmitted ==
    (path = "small" /\ rv_pc = "done") =>
        \A u \in DOMAIN tasks :
            ~tasks[u].raised => \E c \in Chunks : c.chunk = "report" /\ c.index = diff_contents[u]

\* C18: max_concurrent_batches is between 1 and 3 whatever value is configured; in
\* the large path at most max_concurrent_batches batch tasks are in flight at any
\* moment, in the small path at most 3 unit tasks.
C18_BoundedInFlight ==
    /\ max_concurrent_batches \in 1..3
    /\ path = "large" => InFlight <= max_concurrent_batches
    /\ path = "small" => InFlight <= 3

\* C18 witness: three batch tasks in flight under a limit of three, while a later
\* batch is waiting for its group.
C18_Witness ==
    /\ path = "large"
    /\ max_concurrent_batches = 3
    /\ InFlight = 3
    /\ \E k \in DOMAIN tasks : tasks[k].st = "unstarted"

C20_DisconnectAllTolerant ==
    client_op.name = "disconnect_all" =>
        /\ ~client_op.raised
        /\ connections = <<>>
        /\ \A i \in DOMAIN client_op.connections :
               \A j \in DOMAIN client_op.connections[i].exit_stack :
                   client_op.connections[i].exit_stack[j] \in held
                       => client_op.connections[i].exit_stack[j] \in faulty

\* C21 (as claimed): every provider id has at most one registered connection and
\* at most one session that was acquired and is not yet released.
C21_OnePerProvider ==
    \A id \in Providers :
        /\ Cardinality({i \in DOMAIN connections : connections[i].id = id}) <= 1
        /\ Cardinality({h \in held : h.kind = "session" /\ h.id = id}) <= 1

(***************************************************************************)
(* Claims about runs and states of the executor                            *)
(***************************************************************************)
\* C22 (as claimed): two execute calls on one executor do not interfere: while a
\* call is inside a step the counter is the number of steps that call has
\* started, and neither call starts more than max_steps steps.
C22_RunsDoNotInterfere ==
    /\ pc \in {"step", "yielded"} => _step_count = calls
    /\ pc_b \in {"step", "yielded"} => _step_count = calls_b
    /\ calls <= max_steps
    /\ calls_b <= max_steps

\* C24 (as claimed): after a run that ended by completion the counter is 0 and
\* the state is Ready.
C24_ReadyAfterCompletion ==
    (pc = "idle" /\ outcome = "finished") => (_step_count = 0 /\ _state = "ready")

\* C24 (amended): after a run that ended by completion the counter is 0 and the
\* state is still Running; the next execute call is accepted in that state and
\* counts its steps from 1.
C24_RunningAfterCompletion ==
    /\ (pc = "idle" /\ outcome = "finished") => (_step_count = 0 /\ _state = "running")
    /\ entry.prev = "finished" =>
           /\ entry.state = "running"
           /\ entry.count = 0
           /\ outcome # "invalid_state"
           /\ pc \in {"step", "yielded", "final_yielded"} => (calls >= 1 /\ _step_count = calls)

\* C24 witness: the run that follows a completed run is in its first step.
C24_Witness == entry.prev = "finished" /\ pc = "step" /\ _step_count = 1 /\ calls = 1

\* C27 (as claimed): no call changes the state of an executor or agent that is in
\* Error or Stopped.
C27_TerminalStates ==
    [][ (_state \in {"error", "stopped"}) => (_state' = _state) ]_vars

\* C27 (amended): an executor or agent in Error or Stopped is never Ready or
\* Running again: start and run/execute leave its state as it is, and stop leaves
\* Stopped as it is and turns Error into Stopped.
C27_NeverActiveAgain ==
    [][ /\ (_state = "stopped") => (_state' = "stopped")
        /\ (_state = "error") => (_state' \in {"error", "stopped"}) ]_vars

\* C27 witness: stop was called on an executor that a failed run left in Error.
C27_Witness ==
    /\ _state = "stopped"
    /\ pc = "idle"
    /\ outcome = "none"
    /\ _step_count > 0

(***************************************************************************)
(* Claims about the registration of tools (checked under SpecTool)         *)
(***************************************************************************)
\* The tool of the argument at position i is the one registered under its name.
Active(i) ==
    /\ tools_arg[i].name \in DOMAIN tools
    /\ tools[tools_arg[i].name] = tools_arg[i].parameters

Accepted(i) == _validate_tool(tools_arg[i].parameters)

Registered == tools_arg # <<>> /\ pending = <<>>

EndedWithoutError == pc = "idle" /\ outcome \in {"finished", "limit", "returned"}

\* C23 (as claimed): the output stream of every run that ends without error ends
\* with the task-complete marker, which follows the output of the final step, or
\* with the step-limit message; a model that ends its turn with the text "hi"
\* gives exactly "hi" followed by the marker.
C23_EndsWithMarker ==
    EndedWithoutError =>
        /\ outputs # <<>>
        /\ Last(outputs).kind \in {"final", "limit"}
        /\ Last(outputs).kind = "final" =>
               /\ Len(outputs) >= 2
               /\ outputs[Len(outputs) - 1].kind = "output"
        /\ (calls = 1 /\ consumed = 1 /\ response = Response("end_turn", "hi", None)) =>
               (Len(outputs) = 2 /\ outputs[1] = OutputChunk("hi"))

\* The step has just yielded the result of the first Thought of a response that
\* asks for a tool that is not registered.
UnregisteredToolRequested ==
    /\ pc = "yielded"
    /\ response.stop_reason = "tool_use"
    /\ ~IsNone(response.tool_call)
    /\ Val(response.tool_call).name \notin DOMAIN tools
    /\ thoughts # <<>>

\* C25 (as claimed): when the think stream asks for a tool that is not
\* registered, act is called and returns the unknown-tool failure, the step
\* persists it in one "action" memory entry and yields a result that is not
\* finished, so that the executor goes on with the next step.
C25_UnknownToolRecorded ==
    UnregisteredToolRequested =>
        /\ acts = 1
        /\ tool_op.op = "act"
        /\ tool_op.result =
               ActionResult(FALSE, None, Some(UnknownToolError(Val(response.tool_call).name)))
        /\ Last(_memory).type = "action"
        /\ Last(_memory).content.result = tool_op.result
        /\ ~cur.is_finished
        /\ step_pc = "returned"

\* The stream of the current step raised while think was reading it.
StreamHasRaised == response.stop_reason = "raised"

\* C26: an exception of the model stream is not propagated and gives no Error
\* state: think yields a finished Thought with the error text, the step records
\* a "thought" memory entry (the fragments read so far and the error text) and
\* emits the error text as a finished result, and the run ends as a completion
\* with the step counter back at 0.
C26_StreamErrorCompletes ==
    StreamHasRaised =>
        /\ _state = "running"
        /\ cur = StepResult(Some(ThinkError(response.text)), None, TRUE, None)
        /\ Last(outputs) = OutputChunk(ThinkError(response.text))
        /\ Last(thought_parts) = ThinkError(response.text)
        /\ \/ /\ pc = "yielded"
              /\ outcome = "running"
              /\ Last(_memory) = Last(log)
              /\ Last(_memory).type = "thought"
              /\ Last(_memory).content = Join(thought_parts)
           \/ /\ pc = "idle"
              /\ outcome = "finished"
              /\ _step_count = 0

\* C26 witness: the stream raised after a text fragment was read, and the run
\* has ended as a completion.
C26_Witness ==
    /\ StreamHasRaised
    /\ Len(thought_parts) = 2
    /\ pc = "idle"
    /\ outcome = "finished"
    /\ _step_count = 0
    /\ _state = "running"

\* The step has called act and has just yielded its result.
ActedAndYielded == pc = "yielded" /\ acts >= 1

\* C29: each tool call consumes one outer step.  act is invoked at most once per
\* step; right after act the step yields one result that is not finished and
\* carries the next context, and it returns: while the step counts an act, no
\* further Thought is read and no further result is consumed; a run with k tool
\* calls has performed at least k steps.
C29_OneToolCallPerStep ==
    /\ [](/\ acts <= 1
          /\ tool_calls <= calls
          /\ ActedAndYielded =>
                 /\ ~cur.is_finished
                 /\ ~IsNone(cur.next_input)
                 /\ cur.output = Some(ActionText(tool_op.name))
                 /\ step_pc = "returned")
    /\ [][ (acts = 1 /\ acts' = 1) =>
               /\ UNCHANGED <<thoughts, thought_parts, consumed, tool_calls, calls>>
               /\ pc' \in {"step", "loop", "idle"}
               /\ pc' = "step" => context' = Val(cur.next_input) ]_vars

\* C29 witness: the second tool call of a run, in its second step; the step has
\* ended with the Thought that think held back unread.
C29_Witness ==
    /\ tool_calls = 2
    /\ calls = 2
    /\ acts = 1
    /\ pc = "loop"
    /\ thoughts # <<>>

\* The position of this run's user entry: the last "user" entry of the store.
ThisRunStart == CHOOSE i \in DOMAIN _memory :
                    /\ _memory[i].type = "user"
                    /\ \A j \in DOMAIN _memory : j > i => _memory[j].type # "user"

\* C30 (as claimed): the context built after a tool call replays exactly the
\* memory entries of this run, from its user entry to the entry just persisted,
\* in order: no entry of an earlier run and none missing.
C30_ContextIsThisRun ==
    ActedAndYielded =>
        Val(cur.next_input) = MessagesOfAll(SubSeq(_memory, ThisRunStart, Len(_memory)))

\* The handler of the tool called in the current step raised.
HandlerRaisedInStep == acts = 1 /\ tool_op.op = "act" /\ tool_op.handler.kind = "raise"

\* C31: when the handler of a registered tool raises during a step the run is not
\* aborted.  act returns the failed ActionResult; the step persists one "action"
\* entry holding the thought, the action and that result and yields a result
\* that is not finished; the executor stays Running, and from the loop test the
\* next step runs while the step count is below max_steps.
C31_HandlerFailureRecovered ==
    /\ [](HandlerRaisedInStep =>
            /\ ~tool_op.raised
            /\ tool_op.result = ActionResult(FALSE, None, Some(ToolFailedError(tool_op.handler.msg)))
            /\ outcome \in {"running", "timeout"}
            /\ pc \in {"yielded", "step", "loop"} => (_state = "running" /\ outcome = "running")
            /\ pc = "yielded" =>
                   /\ ~cur.is_finished
                   /\ mem_op.op = "remember"
                   /\ _memory = Append(mem_op.before, Last(_memory))
                   /\ Last(_memory).type = "action"
                   /\ Last(_memory).content =
                          [thought |-> Join(thought_parts), action |-> action,
                           result |-> tool_op.result])
    /\ [][ (HandlerRaisedInStep /\ pc = "loop" /\ pc' # "loop" /\ _step_count < max_steps) =>
               (pc' = "step" /\ calls' = calls + 1 /\ _state' = "running") ]_vars

\* C31 witness: the step after the one whose tool handler raised is running.
C31_Witness ==
    /\ tool_calls = 1
    /\ acts = 0
    /\ tool_op.op = "act"
    /\ tool_op.handler.kind = "raise"
    /\ calls = 2
    /\ pc = "step"
    /\ _state = "running"
    /\ Last(_memory).type = "action"
    /\ ~Last(_memory).content.result.success

\* The step has called act for the tool request of the response it works on.
ActedOnRequest ==
    /\ acts = 1
    /\ response.stop_reason = "tool_use"
    /\ ~IsNone(response.tool_call)
    /\ tool_op.op = "act"

\* C32 (as claimed): for a request of the think stream that names a registered
\* tool, the Action passed to act carries the requested name and exactly the
\* parameters of the request, and the handler is called with those parameters.
C32_ActionCarriesRequest ==
    ActedOnRequest =>
        /\ action.name = Val(response.tool_call).name
        /\ tool_op.name = action.name
        /\ handler_calls = 1
        /\ action.parameters = Val(response.tool_call).parameters
        /\ tool_op.parameters = Val(response.tool_call).parameters

\* The texts of the model that the run has emitted so far, in order: the output
\* chunks other than the action lines, the error texts and the closing blocks.
EmittedTexts ==
    LET chunks == SelectSeq(outputs, LAMBDA c : c.kind = "output"
                                                /\ c.text \in FinalTexts \cup {FragmentText})
    IN  [i \in DOMAIN chunks |-> chunks[i].text]

\* C33 (as claimed): once a step has ended, every text fragment the model stream
\* delivered in the run has been emitted to the output stream exactly once and
\* in the order of delivery, whatever the stop reason of its response.
C33_FragmentsEmittedOnce ==
    (pc \in {"loop", "limit_yielded"} \/ (pc = "idle" /\ outcome \in {"finished", "limit"}))
        => EmittedTexts = delivered

\* The last call of run was rejected with the invalid-state error, and the store
\* has not been cleared since.
RunRejected == pc = "idle" /\ outcome = "invalid_state" /\ mem_op.op = "remember"

\* C39 (as claimed): a run that is rejected with the invalid-state error leaves
\* the store as it was: no "user" entry for the rejected input, no eviction.
C39_RejectedRunKeepsMemory ==
    RunRejected => _memory = mem_op.before

(***************************************************************************)
(* Claims about the context of a step (checked under SpecExec)             *)
(***************************************************************************)
\* C34: the context given to a step is the most recent next_input that was not
\* None among the results of the earlier steps of the run, or the input of the
\* run when no result supplied one; a result whose next_input is None leaves the
\* context as it is.
C34_ContextIsLatestNextInput ==
    /\ []((pc = "loop" /\ outcome = "running") => context = supplied)
    /\ [][ /\ (pc = "loop" /\ pc' = "step") => (context' = supplied /\ supplied' = supplied)
           /\ (pc = "yielded" /\ pc' = "step" /\ IsNone(cur.next_input)) => context' = context ]_vars

\* C34 witness: the second step was given the context the first result of step
\* one supplied, the second result of step one having supplied none.
C34_Witness ==
    /\ pc = "step"
    /\ calls = 2
    /\ consumed = 0
    /\ Len(outputs) = 2
    /\ cur.kind = "StepResult"
    /\ IsNone(cur.next_input)
    /\ context = "n1"
    /\ entry.prev = "none"

(***************************************************************************)
(* Claims about sessions of the MCPClient (checked under SpecClient)       *)
(***************************************************************************)
\* C36 (as claimed): a create_session call for a provider without a connection
\* raises and changes nothing, and a create_session call that raises, its
\* handshake included, leaves the session of every connection as it was: no
\* session is stored unless the handshake has succeeded.
C36_SessionStoredAfterHandshake ==
    client_op.name = "create_session" =>
        /\ (\A i \in DOMAIN client_op.connections : client_op.connections[i].id # client_op.id) =>
               (client_op.raised /\ connections = client_op.connections /\ held = client_op.held)
        /\ client_op.raised =>
               /\ Len(connections) = Len(client_op.connections)
               /\ \A i \in DOMAIN connections :
                      connections[i].session = client_op.connections[i].session

\* The position of the first connection of the server of the last call among the
\* connections registered before the call, 0 when there was none.
FoundBefore ==
    LET hits == {i \in DOMAIN client_op.connections : client_op.connections[i].id = client_op.id}
    IN  IF hits = {} THEN 0 ELSE CHOOSE i \in hits : \A j \in hits : i <= j

\* C37: disconnect unregisters the connection it finds and exits every resource
\* of that connection exactly once, the one acquired last first (the session
\* before the transport); for an id without a connection it changes nothing and
\* does not raise; after a disconnect_all in a client none of whose releases
\* fails no connection is registered and no resource is held.
C37_ReleasedInReverseOrder ==
    /\ client_op.name = "disconnect" =>
           IF FoundBefore = 0
           THEN /\ connections = client_op.connections
                /\ held = client_op.held
                /\ client_op.released = <<>>
                /\ ~client_op.raised
           ELSE LET stack == client_op.connections[FoundBefore].exit_stack
                    out   == client_op.released
                IN  /\ connections = RemoveAt(client_op.connections, FoundBefore)
                    /\ Len(out) = Len(stack)
                    /\ \A k \in DOMAIN stack : Cardinality({j \in DOMAIN out : out[j] = stack[k]}) = 1
                    /\ \A j, k \in DOMAIN out : j < k => out[j].n > out[k].n
                    /\ \A j, k \in DOMAIN out :
                           (out[j].kind = "session" /\ out[k].kind = "transport") => j < k
                    /\ held = client_op.held \ ({out[j] : j \in DOMAIN out} \ faulty)
    /\ (client_op.name = "disconnect_all" /\ faulty = {}) =>
           /\ connections = <<>>
           /\ held = {}
           /\ ~client_op.raised

\* C37 witness: a disconnect has released two sessions and then the transport of
\* a connection while another connection stayed registered.
C37_Witness ==
    /\ client_op.name = "disconnect"
    /\ ~client_op.raised
    /\ Len(client_op.released) = 3
    /\ client_op.released[1].kind = "session"
    /\ client_op.released[3].kind = "transport"
    /\ held = {}

(***************************************************************************)
(* Claims about interleaved session calls (checked under SpecSession)      *)
(***************************************************************************)
\* The get_or_create_session calls of the provider never overlapped and no
\* stored session of the provider reported closed.
Serialized(id) == ~sess_log[id].overlap /\ ~sess_log[id].closed

\* The sessions of the provider that were entered.
SessionsOf(id) == {h \in held : h.kind = "session" /\ h.id = id}

\* C35: when the get_or_create_session calls of a provider do not overlap and
\* its session stays open, every call that returns a session returns the same
\* one and the handshake is performed exactly once; two calls of one provider
\* that interleave at the awaits of create_session can both create a session.
C35_SerializedCallsShareSession ==
    \A id \in Providers :
        Serialized(id) =>
            /\ Cardinality(sess_log[id].rets) <= 1
            /\ sess_log[id].shakes <= 1
            /\ sess_log[id].nrets >= 1 => sess_log[id].shakes = 1
            /\ Cardinality(SessionsOf(id)) <= 1

\* C35 witness: the two calls of provider a ran one after the other and returned
\* the same session after one handshake, while the two calls of provider b
\* interleaved and each created a session.
C35_Witness ==
    /\ Serialized("a")
    /\ sess_log["a"].nrets = 2
    /\ sess_log["a"].shakes = 1
    /\ Cardinality(sess_log["a"].rets) = 1
    /\ sess_log["b"].overlap
    /\ ~sess_log["b"].closed
    /\ sess_log["b"].shakes = 2
    /\ Cardinality(SessionsOf("b")) = 2
    /\ \A c \in Callers : calling[c].pc = "idle"

(***************************************************************************)
(* Claims about the groups of _review_large_changes (FairSpecReview)       *)
(***************************************************************************)
\* The number of the group batch task k belongs to: the groups take
\* min(max_concurrent_batches, total_batches) batches each, in batch order.
GroupNo(k) == (k - 1) \div EffectiveConcurrent

\* The chunks of the final report of _review_large_changes.
ReportChunks == {"header", "totals", "title", "body", "rule", "section_failed"}

ReportStarted == \E x \in DOMAIN emitted : emitted[x].chunk \in ReportChunks

ReportEmitted ==
    /\ rv_pc = "done"
    /\ \A k \in DOMAIN all_results :
           \E x \in DOMAIN emitted :
               emitted[x].chunk \in {"title", "section_failed"} /\ emitted[x].index = k

\* C38: in _review_large_changes the groups run one after another: a batch task
\* of a later group is started only when every task of the earlier groups has
\* ended, and no chunk of the final report is emitted while a batch task has not
\* ended; when every started task ends, the report is emitted in the end.
C38_GroupsRunInSequence ==
    /\ [](path = "large" =>
            /\ \A j, k \in DOMAIN tasks :
                   (GroupNo(j) < GroupNo(k) /\ tasks[k].st # "unstarted") => tasks[j].st = "done"
            /\ ReportStarted => \A k \in DOMAIN tasks : tasks[k].st = "done")
    /\ (path = "large") ~> (path = "large" /\ ReportEmitted)

\* C38 witness: the report of a review of three groups has been emitted.
C38_Witness ==
    /\ path = "large"
    /\ ReportEmitted
    /\ Len(batches) = 3
    /\ EffectiveConcurrent = 1
    /\ group = 2
    /\ \A k \in DOMAIN tasks : tasks[k].st = "done"

(***************************************************************************)
(* Claims about MCPToolAgent (checked under SpecMcp)                       *)
(***************************************************************************)
\* C40 (as claimed): after initialize followed by cleanup no connection that
\* initialize opened is registered and none of its resources is held, whatever
\* the outcomes of the connect and handshake steps were.
C40_CleanupLeavesNothing ==
    mcp_pc = "cleaned" => (connections = <<>> /\ held = {})

====
